---- MODULE Spec2Model ----
(***************************************************************************)
(* A model of proto-player's tag extraction and scan pipeline:             *)
(*   src/src/utils/file-loader.js  (scan pipeline, dispatcher, path        *)
(*                                  fallback, ID3v2 reader)                *)
(*   src/src/utils/ring-math.js    (FLAC, Ogg and MP4 readers, Vorbis      *)
(*                                  comment decoder)                       *)
(*                                                                         *)
(* Strings are sequences of character codes (String.fromCharCode is the    *)
(* identity on codes), byte buffers are sequences of 0..255 indexed from   *)
(* 1, so that the JS offset p is element p + 1.  An absent (null) string   *)
(* is Null, which differs from the empty string << >>.                     *)
(***************************************************************************)
EXTENDS Integers, Sequences, FiniteSets, TLC

VARIABLES
  version,    \* which processFiles of file-loader.js runs (1: l.119, 2: l.412)
  files,      \* processFiles: its argument, a list of File objects
  limit,      \* mapWithLimit: the concurrency limit
  pc,         \* processFiles: "idle", "scanning", "returned" or "rejected"
  audioFiles, \* processFiles: the files that pass isAudioFile
  index,      \* mapWithLimit: the shared cursor
  workers,    \* mapWithLimit: one entry per worker() promise
  results,    \* mapWithLimit: the results array
  scanned,    \* processFiles (l.125): the dispatches that finished
  progress,   \* every call of the progress callback, in order
  objectUrls, \* the URL.createObjectURL calls made so far
  catalog,    \* what processFiles returned
  call,       \* a single call of a reader or helper: its argument
  ret,        \* that call's return value
  app,        \* app.js: its module state, the carousel's selection, the timers
  player      \* player.js: its module state and the audio element

scanVars == <<version, files, limit, pc, audioFiles, index, workers, results,
              scanned, progress, objectUrls, catalog>>
callVars == <<call, ret>>
uiVars == <<app, player>>
vars == <<version, files, limit, pc, audioFiles, index, workers, results,
          scanned, progress, objectUrls, catalog, call, ret, app, player>>

----------------------------------------------------------------------------
(* Characters and strings *)

\* The printable ASCII characters, code 32 first.
AsciiTable ==
  <<" ", "!", "dquote", "#", "$", "%", "&", "'", "(", ")", "*", "+", ",", "-",
    ".", "/", "0", "1", "2", "3", "4", "5", "6", "7", "8", "9", ":", ";",
    "<", "=", ">", "?", "@", "A", "B", "C", "D", "E", "F", "G", "H", "I",
    "J", "K", "L", "M", "N", "O", "P", "Q", "R", "S", "T", "U", "V", "W",
    "X", "Y", "Z", "[", "backslash", "]", "^", "_", "backtick", "a", "b", "c", "d", "e",
    "f", "g", "h", "i", "j", "k", "l", "m", "n", "o", "p", "q", "r", "s",
    "t", "u", "v", "w", "x", "y", "z", "{", "|", "}", "~">>

CodeOf(c) == 31 + (CHOOSE i \in 1..Len(AsciiTable) : AsciiTable[i] = c)

\* The string whose characters are listed in cs, as character codes.
Str(cs) == [i \in 1..Len(cs) |-> CodeOf(cs[i])]

\* null
Null == <<-1>>

RECURSIVE Concat(_)
Concat(ss) == IF ss = << >> THEN << >> ELSE Head(ss) \o Concat(Tail(ss))

\* s.slice(from) and s.slice(0, to), offsets counted from 0
DropFirst(s, k) == IF k >= Len(s) THEN << >> ELSE SubSeq(s, k + 1, Len(s))
TakeFirst(s, k) == IF k >= Len(s) THEN s ELSE SubSeq(s, 1, k)

IsDigit(c) == c \in 48..57
IsUpper(c) == c \in 65..90
IsLower(c) == c \in 97..122
\* \w of a JS regular expression
IsWordChar(c) == IsDigit(c) \/ IsUpper(c) \/ IsLower(c) \/ c = 95
\* \s of a JS regular expression, which is also what String.trim removes
IsSpace(c) ==
  c \in {9, 10, 11, 12, 13, 32, 160, 5760, 8232, 8233, 8239, 8287, 12288, 65279}
  \/ c \in 8192..8202
\* [\s._-]
IsTrackSep(c) == IsSpace(c) \/ c \in {46, 95, 45}

\* String.prototype.toLowerCase on ASCII
LowerChar(c) == IF IsUpper(c) THEN c + 32 ELSE c
toLowerCase(s) == [i \in 1..Len(s) |-> LowerChar(s[i])]
UpperChar(c) == IF IsLower(c) THEN c - 32 ELSE c
toUpperCase(s) == [i \in 1..Len(s) |-> UpperChar(s[i])]

\* String.prototype.endsWith
endsWith(s, suffix) ==
  /\ Len(suffix) <= Len(s)
  /\ SubSeq(s, Len(s) - Len(suffix) + 1, Len(s)) = suffix

\* The length of the longest prefix of s whose characters all satisfy P.
RECURSIVE RunLength(_, _, _)
RunLength(s, P(_), k) ==
  IF k < Len(s) /\ P(s[k + 1]) THEN RunLength(s, P, k + 1) ELSE k

\* String.prototype.split on a one-character separator
RECURSIVE SplitFrom(_, _, _)
SplitFrom(s, sep, cur) ==
  IF s = << >> THEN <<cur>>
  ELSE IF Head(s) = sep THEN <<cur>> \o SplitFrom(Tail(s), sep, << >>)
  ELSE SplitFrom(Tail(s), sep, Append(cur, Head(s)))

split(s, sep) == SplitFrom(s, sep, << >>)

\* a JS value used as a condition: null and the empty string are falsy
Truthy(s) == s # Null /\ s # << >>

----------------------------------------------------------------------------
(* Path fallback: file-loader.js, cleanFilename and tagsFromPath *)

\* name.replace(/\.\w+$/i, empty): the last dot and what follows it, when what
\* follows is one or more word characters up to the end of the name.
StripExtension(name) ==
  LET dots == {i \in 1..Len(name) : name[i] = 46}
      d == CHOOSE i \in dots : \A j \in dots : j <= i
  IN IF dots # {} /\ d < Len(name)
        /\ \A j \in (d + 1)..Len(name) : IsWordChar(name[j])
     THEN SubSeq(name, 1, d - 1)
     ELSE name

\* A faulty StripTrackPrefix, which leaves the prefix in place.
KeepTrackPrefix(name) == name

\* name.replace(/^\d+[\s._-]+/, empty): leading digits followed by at least
\* one separator, with all the separators that follow.
StripTrackPrefix(name) ==
  LET nd == RunLength(name, IsDigit, 0)
      ns == RunLength(DropFirst(name, nd), IsTrackSep, 0)
  IN IF nd >= 1 /\ ns >= 1 THEN DropFirst(name, nd + ns) ELSE name

cleanFilename(name) ==
  IF ~Truthy(name) THEN Str(<<"U","n","k","n","o","w","n"," ","T","r","a","c","k">>)
  ELSE StripTrackPrefix(StripExtension(name))

\* file._relativePath || file.name
RelativePath(file) == IF Truthy(file.path) THEN file.path ELSE file.name

NoPicture == [present |-> FALSE, mime |-> << >>, data |-> << >>]

EmptyTags == [title |-> Null, artist |-> Null, album |-> Null,
              track |-> Null, picture |-> NoPicture]

tagsFromPath(file) ==
  LET path == RelativePath(file)
      parts == split(path, 47)
      filename == parts[Len(parts)]
      cleaned == cleanFilename(filename)
      nd == RunLength(filename, IsDigit, 0)
  IN [title   |-> IF Truthy(cleaned) THEN cleaned ELSE Null,
      artist  |-> IF Len(parts) >= 3 THEN parts[Len(parts) - 2] ELSE Null,
      album   |-> IF Len(parts) >= 3 THEN parts[Len(parts) - 1]
                  ELSE IF Len(parts) = 2 THEN parts[1] ELSE Null,
      track   |-> IF nd >= 1 THEN TakeFirst(filename, nd) ELSE Null,
      picture |-> NoPicture]

----------------------------------------------------------------------------
(* Byte buffers: Blob.slice, DataView and typed-array reads *)

\* What a DataView read outside its buffer throws.
RangeError == -1

Min(a, b) == IF a <= b THEN a ELSE b
Max(a, b) == IF a >= b THEN a ELSE b

\* blob.slice(start, end) for start, end >= 0: both ends are clamped to the
\* blob, and an end before the start gives the empty blob.
BlobSlice(bytes, start, end) ==
  LET s == Min(start, Len(bytes))
      e == Min(end, Len(bytes))
  IN IF e <= s THEN << >> ELSE SubSeq(bytes, s + 1, e)

\* new Uint8Array(buf, start, len) and subarray/slice within bounds
Bytes(buf, start, len) ==
  IF len <= 0 THEN << >> ELSE SubSeq(buf, start + 1, start + len)

getUint8(view, off) ==
  IF off >= 0 /\ off + 1 <= Len(view) THEN view[off + 1] ELSE RangeError

getUint16(view, off) ==
  IF off >= 0 /\ off + 2 <= Len(view)
  THEN view[off + 1] * 256 + view[off + 2]
  ELSE RangeError

\* big-endian; the inputs keep the first byte below 128 (values below 2^31)
getUint32(view, off) ==
  IF off >= 0 /\ off + 4 <= Len(view)
  THEN ((view[off + 1] * 256 + view[off + 2]) * 256 + view[off + 3]) * 256
       + view[off + 4]
  ELSE RangeError

\* getUint32(off, true): little-endian
getUint32LE(view, off) ==
  IF off >= 0 /\ off + 4 <= Len(view)
  THEN ((view[off + 4] * 256 + view[off + 3]) * 256 + view[off + 2]) * 256
       + view[off + 1]
  ELSE RangeError

\* The JS operators &, | and << on non-negative operands below 2^31.
RECURSIVE BitAnd(_, _)
BitAnd(a, b) ==
  IF a = 0 \/ b = 0 THEN 0
  ELSE (a % 2) * (b % 2) + 2 * BitAnd(a \div 2, b \div 2)

RECURSIVE BitOr(_, _)
BitOr(a, b) ==
  IF a = 0 THEN b
  ELSE IF b = 0 THEN a
  ELSE Max(a % 2, b % 2) + 2 * BitOr(a \div 2, b \div 2)

RECURSIVE ShiftLeft(_, _)
ShiftLeft(a, k) == IF k = 0 THEN a ELSE ShiftLeft(2 * a, k - 1)

----------------------------------------------------------------------------
(* Text decoding *)

\* The character TextDecoder puts for a malformed sequence.
ReplacementChar == 65533

IsCont(b) == b \in 128..191

\* One step of the UTF-8 decoder: <<code point or ReplacementChar, bytes
\* consumed>>.  A lead byte whose continuation is wrong or missing gives
\* ReplacementChar and consumes only the bytes that were acceptable.
Utf8Step(bytes, i) ==
  LET b0 == bytes[i]
      has(k) == i + k <= Len(bytes)
      lo2 == IF b0 = 224 THEN 160 ELSE IF b0 = 240 THEN 144 ELSE 128
      hi2 == IF b0 = 237 THEN 159 ELSE IF b0 = 244 THEN 143 ELSE 191
      ok2 == has(1) /\ bytes[i + 1] \in lo2..hi2
      ok3 == ok2 /\ has(2) /\ IsCont(bytes[i + 2])
      ok4 == ok3 /\ has(3) /\ IsCont(bytes[i + 3])
  IN IF b0 < 128 THEN <<b0, 1>>
     ELSE IF b0 \in 194..223 THEN
       IF ok2 THEN <<(b0 - 192) * 64 + (bytes[i + 1] - 128), 2>>
       ELSE <<ReplacementChar, 1>>
     ELSE IF b0 \in 224..239 THEN
       IF ok3 THEN <<((b0 - 224) * 64 + (bytes[i + 1] - 128)) * 64
                      + (bytes[i + 2] - 128), 3>>
       ELSE IF ok2 THEN <<ReplacementChar, 2>>
       ELSE <<ReplacementChar, 1>>
     ELSE IF b0 \in 240..244 THEN
       IF ok4 THEN <<(((b0 - 240) * 64 + (bytes[i + 1] - 128)) * 64
                       + (bytes[i + 2] - 128)) * 64 + (bytes[i + 3] - 128), 4>>
       ELSE IF ok3 THEN <<ReplacementChar, 3>>
       ELSE IF ok2 THEN <<ReplacementChar, 2>>
       ELSE <<ReplacementChar, 1>>
     ELSE <<ReplacementChar, 1>>

\* A code point as UTF-16 code units (a JS string holds code units).
CodeUnits(cp) ==
  IF cp < 65536 THEN <<cp>>
  ELSE <<55296 + ((cp - 65536) \div 1024), 56320 + ((cp - 65536) % 1024)>>

\* The bytes from offset i on are all ASCII: the decoder gives them back
\* one character each.
AsciiFrom(bytes, i) == \A j \in i..Len(bytes) : bytes[j] < 128

RECURSIVE Utf8From(_, _)
Utf8From(bytes, i) ==
  IF i > Len(bytes) THEN << >>
  ELSE IF AsciiFrom(bytes, i) THEN SubSeq(bytes, i, Len(bytes))
  ELSE LET st == Utf8Step(bytes, i)
       IN CodeUnits(st[1]) \o Utf8From(bytes, i + st[2])

\* new TextDecoder('utf-8').decode(bytes): a leading byte-order mark is
\* dropped, malformed input is replaced, never rejected.
decodeUTF8(bytes) ==
  IF Len(bytes) >= 3 /\ SubSeq(bytes, 1, 3) = <<239, 187, 191>>
  THEN Utf8From(bytes, 4)
  ELSE Utf8From(bytes, 1)

RECURSIVE Latin1From(_, _)
Latin1From(bytes, i) ==
  IF i > Len(bytes) \/ bytes[i] = 0 THEN << >>
  ELSE <<bytes[i]>> \o Latin1From(bytes, i + 1)

decodeLatin1(bytes) == Latin1From(bytes, 1)

RECURSIVE Utf16From(_, _, _)
Utf16From(bytes, littleEndian, i) ==
  IF ~(i + 1 < Len(bytes)) THEN << >>
  ELSE LET code == IF littleEndian
                   THEN BitOr(bytes[i + 1], ShiftLeft(bytes[i + 2], 8))
                   ELSE BitOr(ShiftLeft(bytes[i + 1], 8), bytes[i + 2])
       IN IF code = 0 THEN << >>
          ELSE <<code>> \o Utf16From(bytes, littleEndian, i + 2)

decodeUTF16(bytes, littleEndian) == Utf16From(bytes, littleEndian, 0)

\* A faulty decodeString, which gives the empty string for a selector other
\* than 0, 1, 2, 3: return '' for the default branch.
decodeStringKnown(bytes, encoding) ==
  CASE encoding = 0 -> decodeLatin1(bytes)
    [] encoding = 1 ->
         IF Len(bytes) < 2 THEN << >>
         ELSE decodeUTF16(DropFirst(bytes, 2),
                          bytes[1] = 255 /\ bytes[2] = 254)
    [] encoding = 2 -> decodeUTF16(bytes, FALSE)
    [] encoding = 3 -> decodeUTF8(bytes)
    [] OTHER -> << >>

decodeString(bytes, encoding) ==
  CASE encoding = 0 -> decodeLatin1(bytes)
    [] encoding = 1 ->
         IF Len(bytes) < 2 THEN << >>
         ELSE decodeUTF16(DropFirst(bytes, 2),
                          bytes[1] = 255 /\ bytes[2] = 254)
    [] encoding = 2 -> decodeUTF16(bytes, FALSE)
    [] encoding = 3 -> decodeUTF8(bytes)
    [] OTHER -> decodeLatin1(bytes)

\* String.prototype.trim
trim(s) ==
  LET keep == {i \in 1..Len(s) : ~IsSpace(s[i])}
      first == CHOOSE i \in keep : \A j \in keep : i <= j
      last == CHOOSE i \in keep : \A j \in keep : j <= i
  IN IF keep = {} THEN << >> ELSE SubSeq(s, first, last)

decodeTextFrame(data) ==
  IF Len(data) < 2 THEN << >>
  ELSE trim(decodeString(DropFirst(data, 1), data[1]))

----------------------------------------------------------------------------
(* The byte source *)

\* A file is [name, path, bytes, failAt, duration, lib]: its name, its
\* _relativePath (empty when unset), its content, the ordinal of its first
\* read that is rejected (0: none is; once one is, the later ones are too),
\* the duration the Audio element reports for it, in seconds, and what
\* jsmediatags makes of it (for the first processFiles, which reads tags
\* through that library).
ReadFails(file, k) == file.failAt # 0 /\ k >= file.failAt

\* readSlice(file, start, length): file.slice(start, start + length)
readSlice(file, start, length) == BlobSlice(file.bytes, start, start + length)

\* What a reader returns: a record, or an exception (a rejected promise).
Returned(tags) == [raised |-> FALSE, tags |-> tags]
Raised == [raised |-> TRUE, tags |-> EmptyTags]

----------------------------------------------------------------------------
(* ID3v2 reader: file-loader.js, parseID3 and its helpers *)

\* A faulty decodeSyncsafe, which takes all eight bits of each byte: it
\* lacks & 0x7f.
decodeSyncsafeUnmasked(view, offset) ==
  LET b0 == getUint8(view, offset)
      b1 == getUint8(view, offset + 1)
      b2 == getUint8(view, offset + 2)
      b3 == getUint8(view, offset + 3)
  IN IF RangeError \in {b0, b1, b2, b3} THEN RangeError
     ELSE BitOr(BitOr(BitOr(ShiftLeft(b0, 21), ShiftLeft(b1, 14)),
                      ShiftLeft(b2, 7)),
                b3)

decodeSyncsafe(view, offset) ==
  LET b0 == getUint8(view, offset)
      b1 == getUint8(view, offset + 1)
      b2 == getUint8(view, offset + 2)
      b3 == getUint8(view, offset + 3)
  IN IF RangeError \in {b0, b1, b2, b3} THEN RangeError
     ELSE BitOr(BitOr(BitOr(ShiftLeft(BitAnd(b0, 127), 21),
                            ShiftLeft(BitAnd(b1, 127), 14)),
                      ShiftLeft(BitAnd(b2, 127), 7)),
                BitAnd(b3, 127))

\* while (pos < data.length && data[pos] !== 0) pos++
RECURSIVE SkipToNull(_, _)
SkipToNull(data, pos) ==
  IF pos < Len(data) /\ data[pos + 1] # 0 THEN SkipToNull(data, pos + 1)
  ELSE pos

\* the UTF-16 description: two bytes at a time up to a double null
RECURSIVE SkipToDoubleNull(_, _)
SkipToDoubleNull(data, pos) ==
  IF pos + 1 < Len(data)
  THEN IF data[pos + 1] = 0 /\ data[pos + 2] = 0 THEN pos + 2
       ELSE SkipToDoubleNull(data, pos + 2)
  ELSE pos

ImageJpeg == Str(<<"i","m","a","g","e","/","j","p","e","g">>)
ImagePng == Str(<<"i","m","a","g","e","/","p","n","g">>)

parseAPIC(data) ==
  IF Len(data) < 4 THEN NoPicture
  ELSE
    LET encoding == data[1]
        mimeEnd == SkipToNull(data, 1)
        mime == Bytes(data, 1, mimeEnd - 1)
        afterMime == mimeEnd + 1
        afterType == afterMime + 1
        pos == IF encoding = 1 \/ encoding = 2
               THEN SkipToDoubleNull(data, afterType)
               ELSE SkipToNull(data, afterType) + 1
    IN IF afterMime >= Len(data) THEN NoPicture
       ELSE IF pos >= Len(data) THEN NoPicture
       ELSE [present |-> TRUE,
             mime |-> IF mime # << >> THEN mime ELSE ImageJpeg,
             data |-> DropFirst(data, pos)]

TIT2 == Str(<<"T","I","T","2">>)
TPE1 == Str(<<"T","P","E","1">>)
TALB == Str(<<"T","A","L","B">>)
TRCK == Str(<<"T","R","C","K">>)
APIC == Str(<<"A","P","I","C">>)
WANTED == {TIT2, TPE1, TALB, TRCK, APIC}

\* What one wanted frame does to the record (l.750-762).
ID3ApplyFrame(result, frameId, frameData) ==
  IF frameId \notin WANTED THEN result
  ELSE IF frameId = APIC THEN [result EXCEPT !.picture = parseAPIC(frameData)]
  ELSE IF frameId = TIT2 THEN [result EXCEPT !.title = decodeTextFrame(frameData)]
  ELSE IF frameId = TPE1 THEN [result EXCEPT !.artist = decodeTextFrame(frameData)]
  ELSE IF frameId = TALB THEN [result EXCEPT !.album = decodeTextFrame(frameData)]
  ELSE [result EXCEPT !.track = decodeTextFrame(frameData)]

\* A faulty frame loop, which goes past a frame of size 0: it lacks
\* frameSize === 0 in the test that ends the loop.
RECURSIVE ID3FramesPastEmpty(_, _, _, _)
ID3FramesPastEmpty(body, major, pos, result) ==
  IF ~(pos + 10 <= Len(body)) THEN Returned(result)
  ELSE
    LET frameId == <<getUint8(body, pos), getUint8(body, pos + 1),
                     getUint8(body, pos + 2), getUint8(body, pos + 3)>>
        frameSize == IF major = 4 THEN decodeSyncsafe(body, pos + 4)
                     ELSE getUint32(body, pos + 4)
        data == pos + 10
    IN IF RangeError \in {frameId[1], frameId[2], frameId[3], frameId[4],
                          frameSize}
       THEN Raised
       ELSE IF frameId[1] = 0 THEN Returned(result)
       ELSE IF data + frameSize > Len(body) THEN Returned(result)
       ELSE IF frameSize = 0
       THEN ID3FramesPastEmpty(body, major, data, result)
       ELSE ID3FramesPastEmpty(body, major, data + frameSize,
                               ID3ApplyFrame(result, frameId,
                                             Bytes(body, data, frameSize)))

\* The frame loop (l.732-765) from offset pos of the tag body.
RECURSIVE ID3Frames(_, _, _, _)
ID3Frames(body, major, pos, result) ==
  IF ~(pos + 10 <= Len(body)) THEN Returned(result)
  ELSE
    LET frameId == <<getUint8(body, pos), getUint8(body, pos + 1),
                     getUint8(body, pos + 2), getUint8(body, pos + 3)>>
        frameSize == IF major = 4 THEN decodeSyncsafe(body, pos + 4)
                     ELSE getUint32(body, pos + 4)
        data == pos + 10
    IN IF RangeError \in {frameId[1], frameId[2], frameId[3], frameId[4],
                          frameSize}
       THEN Raised
       ELSE IF frameId[1] = 0 THEN Returned(result)
       ELSE IF frameSize = 0 \/ data + frameSize > Len(body)
       THEN Returned(result)
       ELSE ID3Frames(body, major, data + frameSize,
                      ID3ApplyFrame(result, frameId,
                                    Bytes(body, data, frameSize)))

\* A faulty version test, which lets the versions below 3 through.
MajorUpTo4(major) == ~(major > 4)

\* if (major < 3 || major > 4) return result
MajorSupported(major) == ~(major < 3 \/ major > 4)

parseID3(file) ==
  LET header == readSlice(file, 0, 10)
      major == getUint8(header, 3)
      flags == getUint8(header, 5)
      tagSize == decodeSyncsafe(header, 6)
      hasExt == BitAnd(flags, 64) # 0
      extView == readSlice(file, 10, 4)
      extSize == IF major = 4 THEN decodeSyncsafe(extView, 0)
                 ELSE getUint32(extView, 0)
      offset == IF hasExt THEN 10 + extSize ELSE 10
      tagEnd == 10 + tagSize
      bodyRead == IF hasExt THEN 3 ELSE 2
      body == readSlice(file, offset, tagEnd - offset)
  IN IF ReadFails(file, 1) THEN Returned(EmptyTags)
     ELSE IF Len(header) < 10 THEN Returned(EmptyTags)
     ELSE IF header[1] # 73 \/ header[2] # 68 \/ header[3] # 51
     THEN Returned(EmptyTags)
     ELSE IF ~MajorSupported(major) THEN Returned(EmptyTags)
     ELSE IF hasExt /\ ReadFails(file, 2) THEN Raised
     ELSE IF hasExt /\ extSize = RangeError THEN Raised
     ELSE IF ReadFails(file, bodyRead) THEN Raised
     ELSE ID3Frames(body, major, 0, EmptyTags)

----------------------------------------------------------------------------
(* Vorbis comments and FLAC pictures: ring-math.js *)

\* A reader's working state: the record so far, and whether it threw.
Working(result) == [raised |-> FALSE, tags |-> result]
Threw(result) == [raised |-> TRUE, tags |-> result]

parseFLACPicture(view, result) ==
  IF result.picture.present THEN Working(result)
  ELSE IF Len(view) < 32 THEN Working(result)
  ELSE
    LET mimeLen == getUint32(view, 4)
        mimeAt == 8
        mimeText == decodeUTF8(Bytes(view, mimeAt, mimeLen))
        descAt == mimeAt + mimeLen
        descLen == getUint32(view, descAt)
        lenAt == descAt + 4 + descLen + 16
        dataLen == getUint32(view, lenAt)
        dataAt == lenAt + 4
    IN IF mimeAt + mimeLen > Len(view) THEN Working(result)
       ELSE IF descLen = RangeError THEN Threw(result)
       ELSE IF lenAt + 4 > Len(view) THEN Working(result)
       ELSE IF dataAt + dataLen > Len(view) THEN Working(result)
       ELSE Working([result EXCEPT !.picture =
              [present |-> TRUE,
               mime |-> IF mimeText # << >> THEN mimeText ELSE ImageJpeg,
               data |-> Bytes(view, dataAt, dataLen)]])

\* The value of a base64 character, or -1.
Base64Value(c) ==
  IF IsUpper(c) THEN c - 65
  ELSE IF IsLower(c) THEN c - 97 + 26
  ELSE IF IsDigit(c) THEN c - 48 + 52
  ELSE IF c = 43 THEN 62
  ELSE IF c = 47 THEN 63
  ELSE -1

RECURSIVE Base64Groups(_)
Base64Groups(v) ==
  IF Len(v) >= 4
  THEN <<v[1] * 4 + v[2] \div 16, (v[2] % 16) * 16 + v[3] \div 4,
         (v[3] % 4) * 64 + v[4]>> \o Base64Groups(DropFirst(v, 4))
  ELSE IF Len(v) = 3
  THEN <<v[1] * 4 + v[2] \div 16, (v[2] % 16) * 16 + v[3] \div 4>>
  ELSE IF Len(v) = 2 THEN <<v[1] * 4 + v[2] \div 16>>
  ELSE << >>

\* atob(value): <<TRUE, bytes>>, or <<FALSE, << >> >> when atob throws.
\* ASCII whitespace is dropped, one or two "=" end a string whose length
\* is a multiple of 4, a length of 1 mod 4 or any other character throws.
atob(value) ==
  LET white == {9, 10, 12, 13, 32}
      kept == SelectSeq(value, LAMBDA c : c \notin white)
      n == Len(kept)
      pad == IF n % 4 = 0 /\ n >= 2 /\ kept[n] = 61
             THEN IF kept[n - 1] = 61 THEN 2 ELSE 1
             ELSE 0
      data == TakeFirst(kept, n - pad)
      vals == [i \in 1..Len(data) |-> Base64Value(data[i])]
  IN IF Len(data) % 4 = 1 \/ \E i \in 1..Len(vals) : vals[i] = -1
     THEN <<FALSE, << >> >>
     ELSE <<TRUE, Base64Groups(vals)>>

\* s.indexOf(c)
indexOf(s, c) ==
  LET hits == {i \in 1..Len(s) : s[i] = c}
  IN IF hits = {} THEN -1 ELSE (CHOOSE i \in hits : \A j \in hits : i <= j) - 1

KeyTitle == Str(<<"T","I","T","L","E">>)
KeyArtist == Str(<<"A","R","T","I","S","T">>)
KeyAlbum == Str(<<"A","L","B","U","M">>)
KeyTrackNumber == Str(<<"T","R","A","C","K","N","U","M","B","E","R">>)
KeyPicture == Str(<<"M","E","T","A","D","A","T","A","_","B","L","O","C","K",
                    "_","P","I","C","T","U","R","E">>)

\* A faulty comment step, whose catch clears the record: a picture comment
\* that cannot be decoded loses the fields read before it.
VorbisApplyCommentClearing(result, bytes) ==
  LET comment == decodeUTF8(bytes)
      eq == indexOf(comment, 61)
      key == toUpperCase(TakeFirst(comment, eq))
      value == DropFirst(comment, eq + 1)
      bin == atob(value)
      pic == parseFLACPicture(bin[2], result)
  IN IF ~(eq > 0) THEN result
     ELSE IF key = KeyTitle THEN [result EXCEPT !.title = value]
     ELSE IF key = KeyArtist THEN [result EXCEPT !.artist = value]
     ELSE IF key = KeyAlbum THEN [result EXCEPT !.album = value]
     ELSE IF key = KeyTrackNumber THEN [result EXCEPT !.track = value]
     ELSE IF key = KeyPicture /\ ~result.picture.present
     THEN IF bin[1] /\ ~pic.raised THEN pic.tags ELSE EmptyTags
     ELSE result

\* One comment (l.318-339): KEY=value.
VorbisApplyComment(result, bytes) ==
  LET comment == decodeUTF8(bytes)
      eq == indexOf(comment, 61)
      key == toUpperCase(TakeFirst(comment, eq))
      value == DropFirst(comment, eq + 1)
      bin == atob(value)
      pic == parseFLACPicture(bin[2], result)
  IN IF ~(eq > 0) THEN result
     ELSE IF key = KeyTitle THEN [result EXCEPT !.title = value]
     ELSE IF key = KeyArtist THEN [result EXCEPT !.artist = value]
     ELSE IF key = KeyAlbum THEN [result EXCEPT !.album = value]
     ELSE IF key = KeyTrackNumber THEN [result EXCEPT !.track = value]
     ELSE IF key = KeyPicture /\ ~result.picture.present
     THEN IF bin[1] /\ ~pic.raised THEN pic.tags ELSE result
     ELSE result

\* The comment loop (l.312-342): comment i of count, at offset pos.
RECURSIVE VorbisComments(_, _, _, _, _)
VorbisComments(view, count, i, pos, result) ==
  IF ~(i < count /\ pos + 4 <= Len(view)) THEN result
  ELSE LET commentLen == getUint32LE(view, pos)
           at == pos + 4
       IN IF at + commentLen > Len(view) THEN result
          ELSE VorbisComments(view, count, i + 1, at + commentLen,
                 VorbisApplyComment(result, Bytes(view, at, commentLen)))

parseVorbisComment(view, result) ==
  LET vendorLen == getUint32LE(view, 0)
      countAt == 4 + vendorLen
      count == getUint32LE(view, countAt)
  IN IF 4 > Len(view) THEN result
     ELSE IF countAt + 4 > Len(view) THEN result
     ELSE VorbisComments(view, count, 0, countAt + 4, result)

----------------------------------------------------------------------------
(* FLAC reader: ring-math.js, parseFLAC *)

FlacReadLimit == 524288
OggReadLimit == 262144
Mp4ReadLimit == 1048576
OggPageBudget == 10

FlacMagic == <<102, 76, 97, 67>>

\* The block loop (l.148-165).  The header word is taken apart by bytes:
\* header >>> 31 is the top bit of the first byte, (header >>> 24) & 0x7F
\* its other seven bits, header & 0x00FFFFFF the three bytes that follow.
RECURSIVE FlacBlocks(_, _, _)

\* What one block does to the record: type 4 is the Vorbis comment, type
\* 6 the picture (l.157-161).
FlacApplyBlock(blockType, block, result) ==
  IF blockType = 4 THEN Working(parseVorbisComment(block, result))
  ELSE IF blockType = 6 THEN parseFLACPicture(block, result)
  ELSE Working(result)

\* pos += blockLen; if (isLast) break (l.163-164)
FlacNext(buf, next, isLast, after) ==
  IF after.raised THEN after
  ELSE IF isLast THEN after
  ELSE FlacBlocks(buf, next, after.tags)

FlacBlocks(buf, pos, result) ==
  IF ~(pos + 4 <= Len(buf)) THEN Working(result)
  ELSE
    LET isLast == getUint8(buf, pos) \div 128 = 1
        blockType == getUint8(buf, pos) % 128
        blockLen == (getUint8(buf, pos + 1) * 256 + getUint8(buf, pos + 2))
                    * 256 + getUint8(buf, pos + 3)
        at == pos + 4
    IN IF at + blockLen > Len(buf) THEN Working(result)
       ELSE FlacNext(buf, at + blockLen, isLast,
                     FlacApplyBlock(blockType, Bytes(buf, at, blockLen), result))

\* What a reader returns once its loop has run: the record, or the
\* exception that left the loop.
ReaderResult(done) == IF done.raised THEN Raised ELSE Returned(done.tags)

parseFLAC(file) ==
  LET buf == BlobSlice(file.bytes, 0, Min(Len(file.bytes), FlacReadLimit))
  IN IF ReadFails(file, 1) THEN Returned(EmptyTags)
     ELSE IF Len(buf) < 8 THEN Returned(EmptyTags)
     ELSE IF Bytes(buf, 0, 4) # FlacMagic THEN Returned(EmptyTags)
     ELSE ReaderResult(FlacBlocks(buf, 4, EmptyTags))

----------------------------------------------------------------------------
(* Ogg reader: ring-math.js, parseOGG and findVorbisCommentStart *)

VorbisSignature == <<3, 118, 111, 114, 98, 105, 115>>
OpusSignature == Str(<<"O","p","u","s","T","a","g","s">>)
OggS == Str(<<"O","g","g","S">>)

\* The offset just after the first occurrence of sig in body, or -1.
After(body, sig) ==
  LET hits == {i \in 0..(Len(body) - Len(sig)) : Bytes(body, i, Len(sig)) = sig}
  IN IF hits = {} THEN -1
     ELSE (CHOOSE i \in hits : \A j \in hits : i <= j) + Len(sig)

\* A faulty search, which returns where the signature starts (i for i + 7).
findSignatureStart(body) ==
  IF After(body, VorbisSignature) >= 0
  THEN After(body, VorbisSignature) - Len(VorbisSignature)
  ELSE IF After(body, OpusSignature) >= 0
  THEN After(body, OpusSignature) - Len(OpusSignature)
  ELSE -1

findVorbisCommentStart(body) ==
  IF After(body, VorbisSignature) >= 0 THEN After(body, VorbisSignature)
  ELSE After(body, OpusSignature)

RECURSIVE SumBytes(_, _, _)
SumBytes(bytes, from, n) ==
  IF n = 0 THEN 0 ELSE bytes[from + 1] + SumBytes(bytes, from + 1, n - 1)

\* The page loop (l.190-220).  It returns the record together with the
\* indexes of the pages whose body went to the comment decoder and the
\* number of pages examined.
RECURSIVE OggPages(_, _, _, _, _)

\* A faulty step, which goes on to the next page whatever the comment
\* header gave: it lacks if (result.title || result.artist) break.
OggNextNoBreak(buf, next, pageCount, hasComment, after, seen) ==
  OggPages(buf, next, pageCount + 1, after, seen)

\* if (result.title || result.artist) break; else the next page (l.212-219)
OggNext(buf, next, pageCount, hasComment, after, seen) ==
  IF hasComment /\ (Truthy(after.title) \/ Truthy(after.artist))
  THEN [tags |-> after, decoded |-> seen, pages |-> pageCount + 1]
  ELSE OggPages(buf, next, pageCount + 1, after, seen)

\* The body of a page (l.203-216): pages after the first that lie within
\* the buffer are searched for a comment header, which is then decoded.
OggBody(buf, next, pageCount, result, decoded, fits, body, commentStart) ==
  LET hasComment == fits /\ commentStart >= 0 /\ commentStart < Len(body)
  IN OggNext(buf, next, pageCount, hasComment,
             IF hasComment
             THEN parseVorbisComment(DropFirst(body, commentStart), result)
             ELSE result,
             IF hasComment THEN Append(decoded, pageCount) ELSE decoded)

OggPages(buf, pageStart, pageCount, result, decoded) ==
  IF ~(pageStart + 27 <= Len(buf) /\ pageCount < OggPageBudget)
  THEN [tags |-> result, decoded |-> decoded, pages |-> pageCount]
  ELSE IF Bytes(buf, pageStart, 4) # OggS
  THEN [tags |-> result, decoded |-> decoded, pages |-> pageCount]
  ELSE
    LET numSegments == buf[pageStart + 26 + 1]
        bodySize == SumBytes(buf, pageStart + 27, numSegments)
        bodyStart == pageStart + 27 + numSegments
        fits == pageCount >= 1 /\ bodyStart + bodySize <= Len(buf)
    IN IF pageStart + 27 + numSegments > Len(buf)
       THEN [tags |-> result, decoded |-> decoded, pages |-> pageCount]
       ELSE OggBody(buf, bodyStart + bodySize, pageCount, result, decoded, fits,
                    IF fits THEN Bytes(buf, bodyStart, bodySize) ELSE << >>,
                    IF fits
                    THEN findVorbisCommentStart(Bytes(buf, bodyStart, bodySize))
                    ELSE -1)

parseOGG(file) ==
  LET buf == BlobSlice(file.bytes, 0, Min(Len(file.bytes), OggReadLimit))
  IN IF ReadFails(file, 1) THEN Returned(EmptyTags)
     ELSE IF Len(buf) < 28 THEN Returned(EmptyTags)
     ELSE Returned(OggPages(buf, 0, 0, EmptyTags, << >>).tags)

----------------------------------------------------------------------------
(* MP4 reader: ring-math.js, parseM4A and findAtom *)

NoAtom == [found |-> FALSE, raised |-> FALSE, dataStart |-> 0, end |-> 0]
AtomError == [found |-> FALSE, raised |-> TRUE, dataStart |-> 0, end |-> 0]

AtomType(view, pos) ==
  <<getUint8(view, pos + 4), getUint8(view, pos + 5),
    getUint8(view, pos + 6), getUint8(view, pos + 7)>>

\* A faulty findAtom, which trusts the size an atom declares: it lacks
\* if (pos + size > end) break.
RECURSIVE findAtomUnchecked(_, _, _, _)
findAtomUnchecked(view, start, end, name) ==
  IF ~(start + 8 <= end) THEN NoAtom
  ELSE
    LET size == getUint32(view, start)
        type == AtomType(view, start)
    IN IF size = RangeError THEN AtomError
       ELSE IF size < 8 THEN findAtomUnchecked(view, start + 4, end, name)
       ELSE IF RangeError \in {type[1], type[2], type[3], type[4]}
       THEN AtomError
       ELSE IF type = name
       THEN [found |-> TRUE, raised |-> FALSE, dataStart |-> start + 8,
             end |-> start + size]
       ELSE findAtomUnchecked(view, start + size, end, name)

\* A faulty findAtom, which gives up at a size below 8: break for
\* pos += 4; continue.
RECURSIVE findAtomAbort(_, _, _, _)
findAtomAbort(view, start, end, name) ==
  IF ~(start + 8 <= end) THEN NoAtom
  ELSE
    LET size == getUint32(view, start)
        type == AtomType(view, start)
    IN IF size = RangeError THEN AtomError
       ELSE IF size < 8 THEN NoAtom
       ELSE IF start + size > end THEN NoAtom
       ELSE IF RangeError \in {type[1], type[2], type[3], type[4]}
       THEN AtomError
       ELSE IF type = name
       THEN [found |-> TRUE, raised |-> FALSE, dataStart |-> start + 8,
             end |-> start + size]
       ELSE findAtomAbort(view, start + size, end, name)

RECURSIVE findAtom(_, _, _, _)
findAtom(view, start, end, name) ==
  IF ~(start + 8 <= end) THEN NoAtom
  ELSE
    LET size == getUint32(view, start)
        type == AtomType(view, start)
    IN IF size = RangeError THEN AtomError
       ELSE IF size < 8 THEN findAtom(view, start + 4, end, name)
       ELSE IF start + size > end THEN NoAtom
       ELSE IF RangeError \in {type[1], type[2], type[3], type[4]}
       THEN AtomError
       ELSE IF type = name
       THEN [found |-> TRUE, raised |-> FALSE, dataStart |-> start + 8,
             end |-> start + size]
       ELSE findAtom(view, start + size, end, name)

\* String(n) for n >= 0
RECURSIVE DecimalString(_)
DecimalString(n) ==
  IF n < 10 THEN <<48 + n>> ELSE Append(DecimalString(n \div 10), 48 + (n % 10))

AtomMoov == Str(<<"m","o","o","v">>)
AtomUdta == Str(<<"u","d","t","a">>)
AtomMeta == Str(<<"m","e","t","a">>)
AtomIlst == Str(<<"i","l","s","t">>)
AtomData == Str(<<"d","a","t","a">>)
AtomNam == <<169>> \o Str(<<"n","a","m">>)
AtomART == <<169>> \o Str(<<"A","R","T">>)
AtomAlb == <<169>> \o Str(<<"a","l","b">>)
AtomTrkn == Str(<<"t","r","k","n">>)
AtomCovr == Str(<<"c","o","v","r">>)

\* One item of ilst (l.262-290): what its data atom gives the record.
M4AStoreItem(view, atomType, dataAtom, result) ==
  LET valueStart == dataAtom.dataStart + 8
      valueLen == dataAtom.end - valueStart
      \* new Uint8Array(buf, valueStart, valueLen) throws outside the buffer
      outside == valueStart + valueLen > Len(view)
      value == Bytes(view, valueStart, valueLen)
      trackNum == getUint16(view, valueStart + 2)
      typeFlag == getUint32(view, dataAtom.dataStart)
  IN IF dataAtom.raised
        \/ RangeError \in {atomType[1], atomType[2], atomType[3], atomType[4]}
     THEN Threw(result)
     ELSE IF ~(dataAtom.found /\ dataAtom.end - dataAtom.dataStart > 8)
     THEN Working(result)
     ELSE IF ~(valueLen > 0) THEN Working(result)
     ELSE IF atomType \in {AtomNam, AtomART, AtomAlb}
     THEN IF outside THEN Threw(result)
          ELSE Working([result EXCEPT
                 ![IF atomType = AtomNam THEN "title"
                   ELSE IF atomType = AtomART THEN "artist" ELSE "album"]
                   = decodeUTF8(value)])
     ELSE IF atomType = AtomTrkn /\ valueLen >= 4
     THEN IF trackNum = RangeError THEN Threw(result)
          ELSE Working([result EXCEPT !.track = DecimalString(trackNum)])
     ELSE IF atomType = AtomCovr /\ valueLen > 16
     THEN IF typeFlag = RangeError \/ outside THEN Threw(result)
          ELSE Working([result EXCEPT !.picture =
                 [present |-> TRUE,
                  mime |-> IF typeFlag = 14 THEN ImagePng ELSE ImageJpeg,
                  data |-> value]])
     ELSE Working(result)

\* The item at pos, atomSize bytes long: its type and its data atom.
M4AApplyItem(view, pos, atomSize, result) ==
  M4AStoreItem(view, AtomType(view, pos),
               findAtom(view, pos + 8, pos + atomSize, AtomData), result)

\* The item loop over ilst (l.257-293).
RECURSIVE M4AItems(_, _, _, _)

\* pos += atomSize
M4ANext(view, next, end, after) ==
  IF after.raised THEN after ELSE M4AItems(view, next, end, after.tags)

M4AItems(view, pos, end, result) ==
  IF ~(pos + 8 <= end) THEN Working(result)
  ELSE
    LET atomSize == getUint32(view, pos)
    IN IF atomSize = RangeError THEN Threw(result)
       ELSE IF atomSize < 8 \/ pos + atomSize > end THEN Working(result)
       ELSE M4ANext(view, pos + atomSize, end,
                    M4AApplyItem(view, pos, atomSize, result))

\* The path moov > udta > meta > ilst (l.240-255), innermost first: each
\* atom is looked for inside the one found before it.
M4AInIlst(buf, ilst) ==
  IF ilst.raised THEN Raised
  ELSE IF ~ilst.found THEN Returned(EmptyTags)
  ELSE ReaderResult(M4AItems(buf, ilst.dataStart, ilst.end, EmptyTags))

\* A faulty step, which looks for ilst from the first byte of meta's
\* payload.
M4AInMetaNoSkip(buf, meta) ==
  IF meta.raised THEN Raised
  ELSE IF ~meta.found THEN Returned(EmptyTags)
  ELSE M4AInIlst(buf, findAtom(buf, meta.dataStart, meta.end, AtomIlst))

M4AInMeta(buf, meta) ==
  IF meta.raised THEN Raised
  ELSE IF ~meta.found THEN Returned(EmptyTags)
  ELSE M4AInIlst(buf, findAtom(buf, meta.dataStart + 4, meta.end, AtomIlst))

M4AInUdta(buf, udta) ==
  IF udta.raised THEN Raised
  ELSE IF ~udta.found THEN Returned(EmptyTags)
  ELSE M4AInMeta(buf, findAtom(buf, udta.dataStart, udta.end, AtomMeta))

M4AInMoov(buf, moov) ==
  IF moov.raised THEN Raised
  ELSE IF ~moov.found THEN Returned(EmptyTags)
  ELSE M4AInUdta(buf, findAtom(buf, moov.dataStart, moov.end, AtomUdta))

parseM4A(file) ==
  LET buf == BlobSlice(file.bytes, 0, Min(Len(file.bytes), Mp4ReadLimit))
  IN IF ReadFails(file, 1) THEN Returned(EmptyTags)
     ELSE IF Len(buf) < 8 THEN Returned(EmptyTags)
     ELSE M4AInMoov(buf, findAtom(buf, 0, Len(buf), AtomMoov))

----------------------------------------------------------------------------
(* Format dispatcher: file-loader.js, parseMetadata *)

ExtMp3 == Str(<<".","m","p","3">>)
ExtFlac == Str(<<".","f","l","a","c">>)
ExtOgg == Str(<<".","o","g","g">>)
ExtOpus == Str(<<".","o","p","u","s">>)
ExtM4a == Str(<<".","m","4","a">>)
ExtAac == Str(<<".","a","a","c">>)
ExtWav == Str(<<".","w","a","v">>)
ExtWebm == Str(<<".","w","e","b","m">>)
ExtWma == Str(<<".","w","m","a">>)

\* The reader parseMetadata picks for a file name, "none" when it has none.
ReaderFor(fileName) ==
  LET name == toLowerCase(fileName)
  IN IF endsWith(name, ExtMp3) THEN "id3"
     ELSE IF endsWith(name, ExtFlac) THEN "flac"
     ELSE IF endsWith(name, ExtOgg) \/ endsWith(name, ExtOpus) THEN "ogg"
     ELSE IF endsWith(name, ExtM4a) \/ endsWith(name, ExtAac) THEN "m4a"
     ELSE "none"

\* What the chosen reader returns; with no reader tags stays null, which
\* the dispatcher treats like the empty record.
ReadWith(reader, file) ==
  CASE reader = "id3" -> parseID3(file)
    [] reader = "flac" -> parseFLAC(file)
    [] reader = "ogg" -> parseOGG(file)
    [] reader = "m4a" -> parseM4A(file)
    [] OTHER -> Returned(EmptyTags)

\* A faulty NothingUseful, which looks at the title alone.
NoTitle(tags) == ~Truthy(tags.title)

\* !tags.title && !tags.artist && !tags.album
NothingUseful(tags) ==
  ~Truthy(tags.title) /\ ~Truthy(tags.artist) /\ ~Truthy(tags.album)

\* A faulty fallback, which lays the path's fields over the reader's
\* record and keeps the reader's track and picture.
OrFromPathKeeping(file, read) ==
  IF read.raised THEN Raised
  ELSE IF NothingUseful(read.tags)
  THEN Returned([tagsFromPath(file) EXCEPT !.track = read.tags.track,
                                           !.picture = read.tags.picture])
  ELSE Returned(read.tags)

\* if (!tags.title && !tags.artist && !tags.album) tags = tagsFromPath(file)
OrFromPath(file, read) ==
  IF read.raised THEN Raised
  ELSE IF NothingUseful(read.tags) THEN Returned(tagsFromPath(file))
  ELSE Returned(read.tags)

parseMetadata(file) == OrFromPath(file, ReadWith(ReaderFor(file.name), file))

----------------------------------------------------------------------------
(* Encoders used to build the input files of the model *)

U32(n) == <<n \div 16777216, (n \div 65536) % 256, (n \div 256) % 256, n % 256>>
U32LE(n) == <<n % 256, (n \div 256) % 256, (n \div 65536) % 256, n \div 16777216>>
Syncsafe(n) ==
  <<(n \div 2097152) % 128, (n \div 16384) % 128, (n \div 128) % 128, n % 128>>

\* An ID3v2 header declaring a tag body of size bytes.
Id3Header(major, flags, size) == <<73, 68, 51, major, 0, flags>> \o Syncsafe(size)

\* A frame: identifier, size (syncsafe in v2.4, plain in v2.3), flags, payload.
Id3Frame(major, id, payload) ==
  id \o (IF major = 4 THEN Syncsafe(Len(payload)) ELSE U32(Len(payload)))
     \o <<0, 0>> \o payload

\* An MP4 box declaring size bytes, and one declaring its true size.
BoxSized(size, type, payload) == U32(size) \o type \o payload
Box(type, payload) == BoxSized(8 + Len(payload), type, payload)

\* A Vorbis comment block with an empty vendor string.
VorbisBlock(comments) ==
  U32LE(0) \o U32LE(Len(comments))
  \o Concat([i \in 1..Len(comments) |-> U32LE(Len(comments[i])) \o comments[i]])

\* A FLAC metadata block.
FlacBlock(isLast, type, payload) ==
  <<(IF isLast THEN 128 ELSE 0) + type>>
  \o <<Len(payload) \div 65536, (Len(payload) \div 256) % 256, Len(payload) % 256>>
  \o payload

\* An Ogg page with one segment per 255 bytes of body (bodies below 255 here).
OggPage(body) ==
  OggS \o [i \in 1..22 |-> 0] \o <<1, Len(body)>> \o body

----------------------------------------------------------------------------
(* Sorting and collation *)

\* The characters of ASCII in the order Intl collation gives them at the
\* first level: white space, punctuation, symbols, digits, letters.
CollationOrder ==
  Str(<<" ", "_", "-", ",", ";", ":", "!", "?", ".", "'", "dquote", "(", ")",
        "[", "]", "{", "}", "@", "*", "/", "backslash", "&", "#", "%",
        "backtick", "^", "+", "<", "=", ">", "|", "~", "$",
        "0", "1", "2", "3", "4", "5", "6", "7", "8", "9",
        "a", "b", "c", "d", "e", "f", "g", "h", "i", "j", "k", "l", "m",
        "n", "o", "p", "q", "r", "s", "t", "u", "v", "w", "x", "y", "z">>)

\* First-level weight: letters without their case; other characters after.
Weight(c) ==
  LET hits == {i \in 1..Len(CollationOrder) : CollationOrder[i] = LowerChar(c)}
  IN IF hits = {} THEN 1000 + c ELSE CHOOSE i \in hits : TRUE

\* -1, 0 or 1 as the sequence of numbers a sorts before, with or after b.
RECURSIVE CompareSeq(_, _)
CompareSeq(a, b) ==
  IF a = << >> THEN (IF b = << >> THEN 0 ELSE -1)
  ELSE IF b = << >> THEN 1
  ELSE IF Head(a) < Head(b) THEN -1
  ELSE IF Head(a) > Head(b) THEN 1
  ELSE CompareSeq(Tail(a), Tail(b))

\* a.localeCompare(b): by first-level weights, then lower case before upper
\* case at the first difference.
localeCompare(a, b) ==
  LET first == CompareSeq([i \in 1..Len(a) |-> Weight(a[i])],
                          [i \in 1..Len(b) |-> Weight(b[i])])
      case(s) == [i \in 1..Len(s) |-> IF IsUpper(s[i]) THEN 1 ELSE 0]
  IN IF first # 0 THEN first ELSE CompareSeq(case(a), case(b))

\* A faulty comparator, which leaves the track numbers out.
CompareTitles(a, b) == localeCompare(a.title, b.title)

\* The comparators processFiles sorts with (l.467-470, l.484).
CompareTracks(a, b) ==
  IF a.trackNum # b.trackNum
  THEN (IF a.trackNum < b.trackNum THEN -1 ELSE 1)
  ELSE localeCompare(a.title, b.title)

CompareAlbums(a, b) == localeCompare(a.title, b.title)

Compare(by, a, b) ==
  IF by = "tracks" THEN CompareTracks(a, b) ELSE CompareAlbums(a, b)

\* Array.prototype.sort is stable: x goes after every element it does not
\* sort before.
RECURSIVE InsertSorted(_, _, _)
InsertSorted(sorted, x, by) ==
  IF sorted = << >> THEN <<x>>
  ELSE IF Compare(by, x, sorted[Len(sorted)]) >= 0 THEN Append(sorted, x)
  ELSE Append(InsertSorted(SubSeq(sorted, 1, Len(sorted) - 1), x, by),
              sorted[Len(sorted)])

RECURSIVE SortFrom(_, _, _, _)
SortFrom(items, k, sorted, by) ==
  IF k > Len(items) THEN sorted
  ELSE SortFrom(items, k + 1, InsertSorted(sorted, items[k], by), by)

sort(items, by) == SortFrom(items, 1, << >>, by)

----------------------------------------------------------------------------
(* Grouping: file-loader.js, processFiles after the pool *)

UnknownAlbum == Str(<<"U","n","k","n","o","w","n"," ","A","l","b","u","m">>)
UnknownArtist == Str(<<"U","n","k","n","o","w","n"," ","A","r","t","i","s","t">>)
KeySeparator == Str(<<"|","|","|">>)
NoDuration == Str(<<"-","-",":","-","-">>)
TrackSentinel == 9999

RECURSIVE DigitsValue(_, _)
DigitsValue(s, acc) ==
  IF s = << >> \/ ~IsDigit(Head(s)) THEN acc
  ELSE DigitsValue(Tail(s), acc * 10 + (Head(s) - 48))

\* parseInt(s, 10): white space, a sign, then digits; <<FALSE, 0>> for NaN.
parseInt(s) ==
  LET body == DropFirst(s, RunLength(s, IsSpace, 0))
      signed == body # << >> /\ Head(body) \in {43, 45}
      digits == IF signed THEN Tail(body) ELSE body
      value == DigitsValue(digits, 0)
  IN IF digits = << >> \/ ~IsDigit(Head(digits)) THEN <<FALSE, 0>>
     ELSE <<TRUE, IF signed /\ Head(body) = 45 THEN 0 - value ELSE value>>

parseTrackNumber(track) ==
  IF ~Truthy(track) THEN TrackSentinel
  ELSE IF parseInt(track)[1] THEN parseInt(track)[2] ELSE TrackSentinel

\* whole seconds; a track of 59.6 s is outside the model
formatDuration(seconds) ==
  IF seconds <= 0 THEN Str(<<"0",":","0","0">>)
  ELSE LET sec == DecimalString(seconds % 60)
       IN DecimalString(seconds \div 60) \o <<58>>
          \o (IF Len(sec) < 2 THEN <<48>> ELSE << >>) \o sec

\* The first cleanFilename (l.344): only the known audio extensions go.
cleanFilenameV1(name) ==
  LET lower == toLowerCase(name)
      exts == {ExtMp3, ExtM4a, ExtWav, ExtOgg, ExtFlac, ExtAac, ExtWma, ExtOpus}
      hit == {e \in exts : endsWith(lower, e)}
      stem == IF hit = {} THEN name
              ELSE TakeFirst(name, Len(name) - Len(CHOOSE e \in hit : TRUE))
  IN IF ~Truthy(name) THEN Str(<<"U","n","k","n","o","w","n"," ","T","r","a","c","k">>)
     ELSE StripTrackPrefix(stem)

\* A faulty key, which leaves the artist out.
KeyByAlbumOnly(tags) ==
  IF Truthy(tags.album) THEN tags.album ELSE UnknownAlbum

AlbumKey(tags) ==
  (IF Truthy(tags.album) THEN tags.album ELSE UnknownAlbum) \o KeySeparator
  \o (IF Truthy(tags.artist) THEN tags.artist ELSE UnknownArtist)

\* The index in albumMap of the entry with this key, 0 when there is none.
EntryOf(albumMap, key) ==
  LET hits == {k \in 1..Len(albumMap) : albumMap[k].key = key}
  IN IF hits = {} THEN 0 ELSE CHOOSE k \in hits : TRUE

\* fileMap.set(path, f): a Map keeps the place of a key it already has.
MapSet(map, path, f) ==
  LET hits == {k \in 1..Len(map) : map[k].path = path}
  IN IF hits = {} THEN Append(map, [path |-> path, file |-> f])
     ELSE [map EXCEPT ![CHOOSE k \in hits : TRUE].file = f]

\* A faulty update, where the picture of a later record replaces the one
\* the entry has.
TakePicture(current, picture) ==
  IF picture.present THEN picture ELSE current

\* if (!entry.picture && tags.picture) entry.picture = tags.picture
KeepPicture(current, picture) ==
  IF ~current.present /\ picture.present THEN picture ELSE current

\* One record of parsed folded into albumMap (l.146-174, l.435-462).
AddToAlbum(ver, albumMap, item, file) ==
  LET tags == item.tags
      key == AlbumKey(tags)
      fresh == [key |-> key,
                albumName |-> IF Truthy(tags.album) THEN tags.album
                              ELSE UnknownAlbum,
                artistName |-> IF Truthy(tags.artist) THEN tags.artist
                               ELSE UnknownArtist,
                picture |-> NoPicture,
                tracks |-> << >>]
      map1 == IF EntryOf(albumMap, key) = 0 THEN Append(albumMap, fresh)
              ELSE albumMap
      k == EntryOf(map1, key)
      track == [title |-> IF Truthy(tags.title) THEN tags.title
                          ELSE IF ver = 1 THEN cleanFilenameV1(file.name)
                          ELSE cleanFilename(file.name),
                dur |-> IF ver = 1 THEN NoDuration
                        ELSE formatDuration(item.duration),
                trackNum |-> parseTrackNumber(tags.track),
                path |-> RelativePath(file),
                file |-> item.file]
  IN [map1 EXCEPT
        ![k].picture = KeepPicture(@, tags.picture),
        ![k].tracks = Append(@, track)]

\* The number of entries of albumMap before entry k that have a picture:
\* each of them has taken one object URL before entry k gets its own.
PicturesBefore(albumMap, k) ==
  Cardinality({j \in 1..(k - 1) : albumMap[j].picture.present})

\* An album of the result (l.179-195, l.466-482).  cover is the number of
\* the createObjectURL call that made it, 0 for PLACEHOLDER_COVER.
BuildAlbum(albumMap, k, urlsBefore) ==
  LET entry == albumMap[k]
      sorted == sort(entry.tracks, "tracks")
  IN [title |-> entry.albumName,
      artist |-> entry.artistName,
      cover |-> IF entry.picture.present
                THEN urlsBefore + PicturesBefore(albumMap, k) + 1 ELSE 0,
      tracks |-> [t \in 1..Len(sorted) |->
                    [title |-> sorted[t].title, dur |-> sorted[t].dur,
                     path |-> sorted[t].path]]]

----------------------------------------------------------------------------
(* The files of the scans the model runs *)

TagsOf(title, artist, album, track) ==
  [title |-> title, artist |-> artist, album |-> album, track |-> track,
   picture |-> NoPicture]

One == Str(<<"O","n","e">>)
Art == Str(<<"A","r","t">>)
Alb == Str(<<"A","l","b">>)

\* A tagged MP3: ID3v2.3 with a title, an album and a track number.
TaggedMp3Bytes ==
  LET body == Id3Frame(3, TIT2, <<3>> \o One) \o Id3Frame(3, TALB, <<0>> \o Alb)
              \o Id3Frame(3, TRCK, <<0, 49>>)
  IN Id3Header(3, 0, Len(body)) \o body

\* A FLAC file with a title in its Vorbis comment block.
TaggedFlacBytes ==
  FlacMagic \o FlacBlock(TRUE, 4,
    VorbisBlock(<<Str(<<"T","I","T","L","E","=","T","h","r","e","e">>)>>))

ScanFiles == <<
  \* 1: tagged and readable
  [name |-> Str(<<"0","1"," ","O","n","e",".","m","p","3">>),
   path |-> Str(<<"A","r","t","/","A","l","b","/","0","1"," ","O","n","e",".","m","p","3">>),
   bytes |-> TaggedMp3Bytes, failAt |-> 0, duration |-> 61,
   lib |-> [outcome |-> "success", tags |-> TagsOf(One, Null, Alb, <<49>>)]],
  \* 2: an ID3 header that announces an extended header the file lacks
  [name |-> Str(<<"0","2"," ","T","w","o",".","m","p","3">>),
   path |-> Str(<<"A","r","t","/","A","l","b","/","0","2"," ","T","w","o",".","m","p","3">>),
   bytes |-> Id3Header(3, 64, 0), failAt |-> 0, duration |-> 0,
   lib |-> [outcome |-> "throw", tags |-> EmptyTags]],
  \* 3: tagged, but every read of it is rejected
  [name |-> Str(<<"0","3",".","f","l","a","c">>),
   path |-> Str(<<"A","l","b","/","0","3",".","f","l","a","c">>),
   bytes |-> TaggedFlacBytes, failAt |-> 1, duration |-> 0,
   lib |-> [outcome |-> "error", tags |-> EmptyTags]],
  \* 4: readable, of a format without a reader
  [name |-> Str(<<"f","o","u","r",".","w","a","v">>),
   path |-> << >>,
   bytes |-> <<82, 73, 70, 70>>, failAt |-> 0, duration |-> 7,
   lib |-> [outcome |-> "success", tags |-> TagsOf(<< >>, Null, Null, Null)]],
  \* 5: a tagged MP3 whose reads after the header are rejected
  [name |-> Str(<<"f","i","v","e",".","M","P","3">>),
   path |-> Str(<<"A","l","b","/","f","i","v","e",".","M","P","3">>),
   bytes |-> TaggedMp3Bytes, failAt |-> 2, duration |-> 0,
   lib |-> [outcome |-> "success", tags |-> TagsOf(Null, Art, Null, Null)]],
  \* 6: not an audio file
  [name |-> Str(<<"c","o","v","e","r",".","j","p","g">>),
   path |-> Str(<<"A","l","b","/","c","o","v","e","r",".","j","p","g">>),
   bytes |-> <<255, 216>>, failAt |-> 0, duration |-> 0,
   lib |-> [outcome |-> "error", tags |-> EmptyTags]] >>

\* Bounds of the scans: the length of the file list, the concurrency limit.
MaxFiles == 3
MaxLimit == 2

RECURSIVE SeqsUpTo(_, _)
SeqsUpTo(S, n) ==
  IF n = 0 THEN {<< >>}
  ELSE LET shorter == SeqsUpTo(S, n - 1)
       IN shorter \cup {Append(q, x) : q \in {r \in shorter : Len(r) = n - 1}, x \in S}

----------------------------------------------------------------------------
(* Scan pipeline: file-loader.js, processFiles and mapWithLimit *)

\* CONCURRENCY of the two versions.  mapWithLimit takes any limit: beside
\* the one processFiles passes, the model runs it with the limits of
\* 1..MaxLimit, which bind on the short lists of the model.
CONCURRENCY1 == 10
CONCURRENCY2 == 5
Limits(ver) == (1..MaxLimit) \cup {IF ver = 1 THEN CONCURRENCY1 ELSE CONCURRENCY2}

AUDIO_EXTS == {ExtMp3, ExtM4a, ExtWav, ExtOgg, ExtFlac, ExtAac, ExtWma, ExtOpus}
AUDIO_EXTENSIONS == {ExtMp3, ExtM4a, ExtAac, ExtFlac, ExtOgg, ExtOpus, ExtWav, ExtWebm}

\* name.lastIndexOf('.') and the extension from there, in lower case
isAudioFile(ver, name) ==
  LET dots == {i \in 1..Len(name) : name[i] = 46}
      dot == CHOOSE i \in dots : \A j \in dots : j <= i
  IN /\ dots # {}
     /\ toLowerCase(DropFirst(name, dot - 1))
          \in (IF ver = 1 THEN AUDIO_EXTS ELSE AUDIO_EXTENSIONS)

\* An element of the results array, and what a worker holds of it.
EmptySlot == [state |-> "empty", file |-> 0, tags |-> EmptyTags, duration |-> 0]
NullResult == [state |-> "null", file |-> 0, tags |-> EmptyTags, duration |-> 0]
Thrown == [state |-> "thrown", file |-> 0, tags |-> EmptyTags, duration |-> 0]
ValueResult(i, tags, duration) ==
  [state |-> "value", file |-> i, tags |-> tags, duration |-> duration]

\* t.title || null, and so on (readTags, l.208-215)
OrNull(s) == IF Truthy(s) THEN s ELSE Null

\* readTags(file): what jsmediatags reports, or the exception it throws.
readTags(file) ==
  IF file.lib.outcome = "throw" THEN Raised
  ELSE IF file.lib.outcome = "error" THEN Returned(EmptyTags)
  ELSE Returned([title |-> OrNull(file.lib.tags.title),
                 artist |-> OrNull(file.lib.tags.artist),
                 album |-> OrNull(file.lib.tags.album),
                 track |-> OrNull(file.lib.tags.track),
                 picture |-> file.lib.tags.picture])

\* The callback given to mapWithLimit (l.130-141, l.420-431), for the file
\* at index i: its try and catch.
\* A faulty callback, without try and catch: what the read raises leaves it.
NoTryCatch(ver, file, i, read) ==
  IF read.raised THEN Thrown
  ELSE ValueResult(i + 1, read.tags, IF ver = 1 THEN 0 ELSE file.duration)

\* A faulty callback, whose catch keeps the file with an empty record.
CatchAndKeep(ver, file, i, read) ==
  ValueResult(i + 1, IF read.raised THEN EmptyTags ELSE read.tags,
              IF ver = 1 THEN 0 ELSE file.duration)

TryCatch(ver, file, i, read) ==
  IF read.raised THEN NullResult
  ELSE ValueResult(i + 1, read.tags, IF ver = 1 THEN 0 ELSE file.duration)

\* What reading the tags of each file of ScanFiles gives, raised or
\* returned: readTags in the first processFiles, parseMetadata in the
\* second.  A read depends on the file alone, so it is worked out once.
TagsOfFile ==
  [ver \in {1, 2} |->
     [k \in 1..Len(ScanFiles) |->
        IF ver = 1 THEN readTags(ScanFiles[k]) ELSE parseMetadata(ScanFiles[k])]]

\* fn for file k of ScanFiles, at index i of the items.
fn(ver, k, i) == TryCatch(ver, ScanFiles[k], i, TagsOfFile[ver][k])

\* A faulty report, made in the try block: a failed dispatch is not counted.
ReportOnSuccess(ver, log, count, total, out) ==
  IF ver = 1 /\ out.state = "value" THEN Append(log, <<count, total>>) ELSE log

\* finally { scanned++; reportProgress(scanned, total) } (l.137-140)
ReportAfter(ver, log, count, total, out) ==
  IF ver = 1 THEN Append(log, <<count, total>>) ELSE log

\* A faulty loop condition, which stops one item early.
HasMoreButOne(cursor, n) == cursor + 1 < n

\* A faulty pool, which starts a worker for every item.
WorkerPerItem(lim, n) == n

\* A faulty store, which fills the slots in the order of completion.
StoreNext(res, i, out) ==
  LET free == {k \in 1..Len(res) : res[k].state = "empty"}
  IN [res EXCEPT ![CHOOSE k \in free : \A j \in free : k <= j] = out]

\* A faulty claim, which leaves the cursor where it is: index for index++.
SameIndex(cursor) == cursor

\* const i = index++: the cursor after the claim
NextIndex(cursor) == cursor + 1

\* while (index < items.length)
HasMore(cursor, n) == cursor < n

\* Math.min(limit, items.length)
WorkerCount(lim, n) == Min(lim, n)

\* results[i] = ...
StoreResult(res, i, out) == [res EXCEPT ![i + 1] = out]

NoCatalog == [kind |-> "none", albums |-> << >>, fileMap |-> << >>]
NullCatalog == [kind |-> "null", albums |-> << >>, fileMap |-> << >>]

RECURSIVE FoldAlbums(_, _, _, _)
FoldAlbums(ver, parsed, k, albumMap) ==
  IF k > Len(parsed) THEN albumMap
  ELSE FoldAlbums(ver, parsed, k + 1,
                  AddToAlbum(ver, albumMap, parsed[k], parsed[k].fileRecord))

RECURSIVE FoldFileMap(_, _, _)
FoldFileMap(parsed, k, map) ==
  IF k > Len(parsed) THEN map
  ELSE FoldFileMap(parsed, k + 1,
                   MapSet(map, RelativePath(parsed[k].fileRecord), parsed[k].file))

\* The albums built and sorted, and the map from path to file.
CatalogOf(albumMap, parsed, urlsBefore) ==
  [kind |-> "value",
   albums |-> sort([k \in 1..Len(albumMap) |-> BuildAlbum(albumMap, k, urlsBefore)],
                   "albums"),
   fileMap |-> FoldFileMap(parsed, 1, << >>)]

GroupParsed(ver, parsed, urlsBefore) ==
  CatalogOf(FoldAlbums(ver, parsed, 1, << >>), parsed, urlsBefore)

\* results.filter(Boolean), each kept result with its file
Parsed(items, kept) ==
  [k \in 1..Len(kept) |->
     [file |-> kept[k].file, tags |-> kept[k].tags, duration |-> kept[k].duration,
      fileRecord |-> ScanFiles[items[kept[k].file]]]]

\* processFiles after the pool: filter(Boolean), grouping, both sorts.
GroupAlbums(ver, items, res, urlsBefore) ==
  GroupParsed(ver, Parsed(items, SelectSeq(res, LAMBDA r : r.state = "value")),
              urlsBefore)

CoversMade(cat) == Cardinality({k \in 1..Len(cat.albums) : cat.albums[k].cover # 0})

\* app.js l.46-50 with the carousel (ring-carousel: _selectedIndex) and the
\* detail view: no album is loaded, nothing is open, no timer is pending.
\* opened is the argument of the last detail.open still on screen, with the
\* album the click that led to it was made on.
NoOpened == [album |-> "none", clicked |-> "none"]
NoApp ==
  [albums |-> << >>, expanded |-> -1, selectedIndex |-> 0, timers |-> << >>,
   loading |-> {}, storedHandle |-> FALSE, opened |-> NoOpened]

\* player.js (part_002 l.286-291, l.368): no album, no file map, no blob URL.
\* created counts the URL.createObjectURL calls, revoked holds the URLs
\* given to URL.revokeObjectURL, src is audio.src with the path of the file
\* behind it and the album and index it was loaded for.
NoSrc == [url |-> 0, path |-> "none", album |-> 0, index |-> -1]
NoPlayer ==
  [currentAlbum |-> 0, currentTrackIndex |-> -1, fileMap |-> {},
   currentBlobURL |-> 0, created |-> 0, revoked |-> {}, src |-> NoSrc,
   paused |-> TRUE]

IdleUI == app = NoApp /\ player = NoPlayer

NoCall == [fn |-> "none", file |-> ScanFiles[1]]
NoRet == [done |-> FALSE, raised |-> FALSE, tags |-> EmptyTags, read |-> EmptyTags]

ScanInit ==
  /\ version \in {1, 2}
  /\ files \in SeqsUpTo(1..Len(ScanFiles), MaxFiles)
  /\ limit \in Limits(version)
  /\ pc = "idle"
  /\ audioFiles = << >>
  /\ index = 0
  /\ workers = << >>
  /\ results = << >>
  /\ scanned = 0
  /\ progress = << >>
  /\ objectUrls = 0
  /\ catalog = NoCatalog

Init == ScanInit /\ call = NoCall /\ ret = NoRet /\ IdleUI

\* processFiles up to its first await: the filter, the first progress
\* report, and mapWithLimit starting its workers, each of which runs to the
\* await of its first dispatch.
ProcessFiles ==
  /\ pc = "idle"
  /\ LET audio == SelectSeq(files, LAMBDA f : isAudioFile(version, ScanFiles[f].name))
         n == Len(audio)
         k == WorkerCount(limit, n)
     IN /\ audioFiles' = audio
        /\ IF n = 0
           THEN /\ pc' = "returned"
                /\ catalog' = NullCatalog
                /\ UNCHANGED <<index, workers, results, progress, objectUrls>>
           ELSE /\ pc' = "scanning"
                /\ progress' = IF version = 1 THEN <<<<0, n>>>> ELSE << >>
                /\ results' = [i \in 1..n |-> EmptySlot]
                /\ workers' = [w \in 1..k |->
                     IF HasMore(w - 1, n)
                     THEN [st |-> "awaiting", i |-> w - 1, out |-> EmptySlot]
                     ELSE [st |-> "done", i |-> 0, out |-> EmptySlot]]
                /\ index' = Min(k, n)
                /\ objectUrls' = IF version = 2 THEN Min(k, n) ELSE 0
                /\ catalog' = catalog
  /\ UNCHANGED <<version, files, limit, scanned, call, ret, uiVars>>

\* The dispatch a worker awaits finishes: fn's try, catch and finally.
Settle(w) ==
  /\ w \in DOMAIN workers
  /\ workers[w].st = "awaiting"
  /\ \E out \in {fn(version, audioFiles[workers[w].i + 1], workers[w].i)} :
       /\ scanned' = IF version = 1 THEN scanned + 1 ELSE scanned
       /\ progress' = ReportAfter(version, progress, scanned + 1,
                                  Len(audioFiles), out)
       /\ IF out.state = "thrown"
          THEN /\ workers' = [workers EXCEPT ![w].st = "rejected"]
               /\ pc' = IF pc = "scanning" THEN "rejected" ELSE pc
          ELSE /\ workers' = [workers EXCEPT ![w].st = "settled", ![w].out = out]
               /\ pc' = pc
  /\ UNCHANGED <<version, files, limit, audioFiles, index, results,
                 objectUrls, catalog, call, ret, uiVars>>

\* The worker goes on after its await: it stores the result and takes the
\* next index, or ends.
Resume(w) ==
  /\ w \in DOMAIN workers
  /\ workers[w].st = "settled"
  /\ results' = StoreResult(results, workers[w].i, workers[w].out)
  /\ IF HasMore(index, Len(audioFiles))
     THEN /\ workers' = [workers EXCEPT ![w] =
                [st |-> "awaiting", i |-> index, out |-> EmptySlot]]
          /\ index' = NextIndex(index)
          /\ objectUrls' = IF version = 2 THEN objectUrls + 1 ELSE objectUrls
     ELSE /\ workers' = [workers EXCEPT ![w].st = "done"]
          /\ UNCHANGED <<index, objectUrls>>
  /\ UNCHANGED <<version, files, limit, pc, audioFiles, scanned, progress,
                 catalog, call, ret, uiVars>>

\* Promise.all(workers) resolves; processFiles groups and returns.
Finish ==
  /\ pc = "scanning"
  /\ \A w \in 1..Len(workers) : workers[w].st = "done"
  /\ catalog' = GroupAlbums(version, audioFiles, results, objectUrls)
  /\ objectUrls' = objectUrls + CoversMade(catalog')
  /\ pc' = "returned"
  /\ UNCHANGED <<version, files, limit, audioFiles, index, workers, results,
                 scanned, progress, call, ret, uiVars>>

Next ==
  \/ ProcessFiles
  \/ \E w \in 1..MaxFiles : Settle(w)
  \/ \E w \in 1..MaxFiles : Resume(w)
  \/ Finish

Spec == Init /\ [][Next]_vars

\* Finish can be taken: ENABLED <<Finish>>_vars, written out.
FinishReady ==
  /\ pc = "scanning"
  /\ \A w \in 1..Len(workers) : workers[w].st = "done"

\* The scheduler runs every continuation that is ready, and every read of
\* a file settles: no step of a scan waits for ever.  The last conjunct is
\* WF_vars(Finish).
FairSpec ==
  /\ Spec
  /\ WF_vars(ProcessFiles)
  /\ \A w \in 1..MaxFiles : WF_vars(Settle(w)) /\ WF_vars(Resume(w))
  /\ []<>(~FinishReady) \/ []<><<Finish>>_vars

----------------------------------------------------------------------------
(* Single calls of the readers, outside a scan *)

ScanAtRest ==
  /\ version = 2
  /\ files = << >>
  /\ limit = CONCURRENCY2
  /\ pc = "idle"
  /\ audioFiles = << >>
  /\ index = 0
  /\ workers = << >>
  /\ results = << >>
  /\ scanned = 0
  /\ progress = << >>
  /\ objectUrls = 0
  /\ catalog = NoCatalog

IdleScan == ScanAtRest /\ IdleUI

FileOf(name, path, bytes, failAt) ==
  [name |-> name, path |-> path, bytes |-> bytes, failAt |-> failAt,
   duration |-> 0, lib |-> [outcome |-> "error", tags |-> EmptyTags]]

CallsOf(fnName, inputs) == {[fn |-> fnName, file |-> f] : f \in inputs}

Answer(read, out) ==
  [done |-> TRUE, raised |-> out.raised, tags |-> out.tags, read |-> read.tags]

\* A call returns (or raises) once.
Call(fnName, read, out) ==
  /\ call.fn = fnName
  /\ ~ret.done
  /\ ret' = Answer(read, out)
  /\ UNCHANGED <<scanVars, call, uiVars>>

(* tagsFromPath *)

\* The deepest path of the inputs has MaxDepth folders above the file.
MaxDepth == 3

Folders == {Str(<<"A","r","t","i","s","t","X">>), Str(<<"A","l","b","u","m","Y">>)}

FileNames ==
  {n \in {prefix \o sep \o stem \o ext :
            prefix \in {<< >>, Str(<<"0","2">>), Str(<<"7">>)},
            sep \in {<< >>, Str(<<" ","-"," ">>), Str(<<".">>), Str(<<"_">>)},
            stem \in {<< >>, Str(<<"S","o","n","g">>), Str(<<"1"," ","M","i","x">>)},
            ext \in {<< >>, Str(<<".","f","l","a","c">>), Str(<<".","m","4","a","!">>)}} :
     n # << >>}

JoinPath(folders, name) ==
  Concat([i \in 1..Len(folders) |-> Append(folders[i], 47)]) \o name

PathFiles ==
  {FileOf(name, JoinPath(folders, name), << >>, 0) :
     name \in FileNames, folders \in SeqsUpTo(Folders, MaxDepth)}

PathInit == IdleScan /\ call \in CallsOf("tagsFromPath", PathFiles) /\ ret = NoRet

TagsFromPath ==
  Call("tagsFromPath", Returned(EmptyTags), Returned(tagsFromPath(call.file)))

PathSpec == PathInit /\ [][TagsFromPath]_vars

(* parseMetadata *)

Foo == Str(<<"F","o","o">>)

TextFrame(major, id, text) == Id3Frame(major, id, <<3>> \o text)
Id3File(major, flags, body) == Id3Header(major, flags, Len(body)) \o body
FlacFile(comments) == FlacMagic \o FlacBlock(TRUE, 4, VorbisBlock(comments))
OggFile(comments) ==
  OggPage(<<1>> \o Str(<<"v","o","r","b","i","s">>))
  \o OggPage(VorbisSignature \o VorbisBlock(comments))

AtomFtyp == Str(<<"f","t","y","p">>)
DataBox(typeFlag, value) == Box(AtomData, U32(typeFlag) \o <<0, 0, 0, 0>> \o value)

\* An MP4 file whose moov and ilst declare moovExtra and ilstExtra bytes
\* more than they have.
M4aFile(items, moovExtra, ilstExtra) ==
  LET ilst == BoxSized(8 + Len(items) + ilstExtra, AtomIlst, items)
      udta == Box(AtomUdta, Box(AtomMeta, <<0, 0, 0, 0>> \o ilst))
  IN Box(AtomFtyp, <<0, 0, 0, 0>>)
     \o BoxSized(8 + Len(udta) + moovExtra, AtomMoov, udta)

\* Contents that give a reader one field, an empty field, or nothing.
DispatchContents ==
  {Id3File(3, 0, TextFrame(3, id, Foo)) : id \in {TIT2, TPE1, TALB, TRCK}}
  \cup {Id3File(4, 0, Id3Frame(4, TIT2, <<0>>) \o TextFrame(4, TRCK, Foo)),
        Id3File(3, 0, << >>),
        FlacFile(<<Str(<<"t","i","t","l","e","=">>) \o Foo>>),
        FlacFile(<<Str(<<"A","R","T","I","S","T","=">>),
                   Str(<<"T","R","A","C","K","N","U","M","B","E","R","=","4">>)>>),
        OggFile(<<Str(<<"A","l","b","u","m","=">>) \o Foo>>),
        OggFile(<< >>),
        M4aFile(Box(AtomART, DataBox(1, Foo)), 0, 0),
        M4aFile(Box(AtomTrkn, DataBox(0, <<0, 0, 0, 7, 0, 12>>)), 0, 0),
        << >>}

DispatchNames ==
  {stem \o ext :
     stem \in {Str(<<"a">>), Str(<<"0","3"," ","b">>)},
     ext \in {ExtMp3, ExtFlac, ExtOgg, ExtOpus, ExtM4a, ExtAac, ExtWav,
              Str(<<".","M","P","3">>), Str(<<".","m","p","3",".","t","x","t">>)}}

DispatchFiles ==
  {FileOf(name, JoinPath(folders, name), bytes, failAt) :
     name \in DispatchNames, bytes \in DispatchContents, failAt \in {0, 1},
     folders \in {<< >>, <<Str(<<"X">>), Str(<<"Y">>)>>}}

DispatchInit ==
  IdleScan /\ call \in CallsOf("parseMetadata", DispatchFiles) /\ ret = NoRet

\* parseMetadata, with what the reader it chose gave it.
ParseMetadata ==
  Call("parseMetadata", ReadWith(ReaderFor(call.file.name), call.file),
       parseMetadata(call.file))

DispatchSpec == DispatchInit /\ [][ParseMetadata]_vars

(* parseID3 *)

Id3Bodies(major) ==
  {<< >>,
   TextFrame(major, TIT2, Foo),
   TextFrame(major, TIT2, Foo) \o <<0, 0, 0, 0, 0, 0, 0, 0, 0, 0, 0, 0>>,
   TakeFirst(TextFrame(major, TIT2, Foo), 12),
   <<0, 0, 0, 6, 0, 0>> \o TextFrame(major, TALB, Foo),
   <<0, 0>>,
   Id3Frame(major, APIC, <<0>> \o ImagePng \o <<0, 3, 0, 9, 9, 9>>)}

Id3Contents ==
  {Id3Header(major, flags, size) \o body :
     major \in {2, 3, 4}, flags \in {0, 64, 128}, size \in {0, 25, 1000},
     body \in UNION {Id3Bodies(m) : m \in {3, 4}}}
  \cup {TakeFirst(TaggedMp3Bytes, n) : n \in 0..Len(TaggedMp3Bytes)}

Id3Files ==
  {FileOf(ExtMp3, << >>, bytes, failAt) :
     bytes \in Id3Contents, failAt \in {0, 1, 2, 3}}

Id3Init == IdleScan /\ call \in CallsOf("parseID3", Id3Files) /\ ret = NoRet

ParseID3 == Call("parseID3", Returned(EmptyTags), parseID3(call.file))

Id3Spec == Id3Init /\ [][ParseID3]_vars

(* parseM4A *)

ValidItems ==
  Box(AtomNam, DataBox(1, Foo))
  \o Box(AtomTrkn, DataBox(0, <<0, 0, 0, 7, 0, 12>>))
  \o Box(AtomCovr, DataBox(14, [i \in 1..17 |-> i]))

ValidM4a == M4aFile(ValidItems, 0, 0)

\* Where the ilst atom of ValidM4a starts.
IlstOffset == Len(ValidM4a) - (8 + Len(ValidItems))

\* Files whose ilst declares more bytes than the buffer has: the whole file
\* cut short inside ilst, or the size of ilst alone overstated.
IlstPastBuffer ==
  {TakeFirst(ValidM4a, n) : n \in (IlstOffset + 8)..(Len(ValidM4a) - 1)}
  \cup {M4aFile(ValidItems, moovExtra, ilstExtra) :
          moovExtra \in {0, 1000}, ilstExtra \in {1, 1000}}

\* Files with an atom that overflows its parent, before atoms that fit: an
\* item of ilst, and a child of moov in front of udta.
OverflowingAtom ==
  {M4aFile(BoxSized(1000, AtomNam, DataBox(1, Foo)) \o Box(AtomART, DataBox(1, Foo)),
           0, 0),
   Box(AtomMoov, BoxSized(1000, AtomFtyp, <<0, 0, 0, 0>>)
                 \o Box(AtomUdta, Box(AtomMeta, <<0, 0, 0, 0>>
                        \o Box(AtomIlst, Box(AtomNam, DataBox(1, Foo))))))}

M4aContents ==
  {TakeFirst(ValidM4a, n) : n \in 0..Len(ValidM4a)}
  \cup {[ValidM4a EXCEPT ![p] = v] : p \in 1..Len(ValidM4a), v \in {0, 1, 9, 64}}
  \cup {M4aFile(ValidItems, moovExtra, 0) : moovExtra \in {1, 1000}}
  \cup {M4aFile(Box(AtomAlb, BoxSized(1000, AtomData, Foo)) \o ValidItems, 0, 0),
        M4aFile(Box(AtomAlb, DataBox(1, << >>)) \o ValidItems, 0, 0),
        M4aFile(Box(AtomTrkn, DataBox(0, <<0, 0, 1>>)), 0, 0),
        M4aFile(<<0, 0, 0, 4, 0, 0, 0, 0>> \o ValidItems, 0, 0)}
  \cup IlstPastBuffer \cup OverflowingAtom

M4aFiles ==
  {FileOf(ExtM4a, << >>, bytes, failAt) : bytes \in M4aContents, failAt \in {0, 1}}

M4aInit == IdleScan /\ call \in CallsOf("parseM4A", M4aFiles) /\ ret = NoRet

ParseM4A == Call("parseM4A", Returned(EmptyTags), parseM4A(call.file))

M4aSpec == M4aInit /\ [][ParseM4A]_vars

(* The grouping step of processFiles *)

\* The longest list of records the grouping step is given.
MaxRecords == 3

Pic(n) == [present |-> TRUE, mime |-> ImagePng, data |-> <<n, n, n>>]

GroupRecord(id, name, tags, picture) ==
  [file |-> id,
   tags |-> [tags EXCEPT !.picture = picture],
   duration |-> 60 + id,
   fileRecord |-> FileOf(name, Str(<<"m","u","s","i","c","/">>) \o name, << >>, 0)]

\* Records of one album with track numbers out of order, a tie, no number
\* and a number above 9999; records without artist, without album, and
\* with empty texts.
GroupRecords ==
  {GroupRecord(1, Str(<<"a",".","m","p","3">>),
               TagsOf(One, Art, Alb, Str(<<"2">>)), Pic(1)),
   GroupRecord(2, Str(<<"b",".","m","p","3">>),
               TagsOf(Str(<<"T","w","o">>), Art, Alb, Str(<<"1">>)), Pic(2)),
   GroupRecord(3, Str(<<"c",".","m","p","3">>),
               TagsOf(Str(<<"t","w","o">>), Art, Alb, Str(<<"1">>)), NoPicture),
   GroupRecord(4, Str(<<"0","7"," ","S","e","v","e","n",".","m","p","3">>),
               TagsOf(Null, Art, Alb, Null), NoPicture),
   GroupRecord(5, Str(<<"e",".","m","p","3">>),
               TagsOf(Str(<<"B","i","g">>), Art, Alb, Str(<<"1","0","0","0","0">>)),
               NoPicture),
   GroupRecord(6, Str(<<"f",".","o","g","g">>),
               TagsOf(Str(<<"S","o","l","o">>), Null, Alb, Str(<<"3","/","1","2">>)),
               Pic(3)),
   GroupRecord(7, Str(<<"g",".","m","4","a">>),
               TagsOf(Str(<<"L","o","s","t">>), Art, Null, Str(<<"x">>)), NoPicture),
   GroupRecord(8, Str(<<"8",".","f","l","a","c">>),
               TagsOf(<< >>, << >>, << >>, << >>), NoPicture)}

GroupCalls ==
  {[fn |-> "group", ver |-> ver, parsed |-> parsed] :
     ver \in {1, 2}, parsed \in SeqsUpTo(GroupRecords, MaxRecords)}

\* blobs[u] is the picture behind object URL u.
NoGrouping == [runs |-> 0, first |-> NoCatalog, second |-> NoCatalog, blobs |-> << >>]

GroupInit == IdleScan /\ call \in GroupCalls /\ ret = NoGrouping

\* URL.createObjectURL(blob) for the picture of every entry that has one
\* (pictureToURL, l.775-779): the blobs the new URLs stand for.
ObjectUrlBlobs(albumMap) ==
  LET withPicture == SelectSeq(albumMap, LAMBDA e : e.picture.present)
  IN [k \in 1..Len(withPicture) |-> withPicture[k].picture]

GroupRun(cat, albumMap) ==
  ret' = [runs |-> ret.runs + 1,
          first |-> IF ret.runs = 0 THEN cat ELSE ret.first,
          second |-> IF ret.runs = 1 THEN cat ELSE ret.second,
          blobs |-> ret.blobs \o ObjectUrlBlobs(albumMap)]

\* The grouping step, run on the same records a first and a second time.
Group ==
  /\ call.fn = "group"
  /\ ret.runs < 2
  /\ \E albumMap \in {FoldAlbums(call.ver, call.parsed, 1, << >>)} :
       GroupRun(CatalogOf(albumMap, call.parsed, Len(ret.blobs)), albumMap)
  /\ UNCHANGED <<scanVars, call, uiVars>>

GroupSpec == GroupInit /\ [][Group]_vars

(* parseFLAC and parseOGG on the same Vorbis comment block *)

\* The longest comment list of a block.
MaxComments == 2

Bar == Str(<<"B","a","r">>)

\* A Vorbis comment block with a vendor string.
VorbisBlockFrom(vendor, comments) ==
  U32LE(Len(vendor)) \o vendor \o DropFirst(VorbisBlock(comments), 4)

VorbisTexts ==
  {Str(<<"T","I","T","L","E","=">>) \o Foo,
   Str(<<"t","i","t","l","e","=">>) \o One,
   Str(<<"A","R","T","I","S","T","=">>) \o Bar,
   Str(<<"A","r","t","i","s","t","=">>),
   Str(<<"a","l","b","u","m","=">>) \o Alb,
   Str(<<"T","r","a","c","k","N","u","m","b","e","r","=","4">>),
   Str(<<"=","x">>),
   Foo,
   Str(<<"C","O","M","M","E","N","T","=">>) \o Foo,
   Str(<<"T","I","T","L","E","=">>) \o <<255>>}

\* The FLAC file: the magic and one type-4 block holding the block.
FlacOf(block) == FlacMagic \o FlacBlock(TRUE, 4, block)

\* Ogg streams whose second page body contains the signature followed by
\* the block: alone, after other bytes, before a framing byte, and with a
\* page of audio behind.
OggLayouts == {"plain", "prefixed", "framed", "audio"}

OggOf(block, layout) ==
  OggPage(<<1>> \o Str(<<"v","o","r","b","i","s">>))
  \o OggPage((IF layout = "prefixed" THEN <<0, 7>> ELSE << >>)
             \o VorbisSignature \o block
             \o (IF layout = "framed" THEN <<1>> ELSE << >>))
  \o (IF layout = "audio" THEN OggPage(<<9, 9, 9>>) ELSE << >>)

VorbisCalls ==
  {[fn |-> "vorbis", comments |-> comments,
    flac |-> FileOf(ExtFlac, << >>, FlacOf(VorbisBlockFrom(vendor, comments)), 0),
    ogg |-> FileOf(ExtOgg, << >>,
                   OggOf(VorbisBlockFrom(vendor, comments), layout), 0)] :
     comments \in SeqsUpTo(VorbisTexts, MaxComments),
     vendor \in {<< >>, Str(<<"X","i","p","h">>)},
     layout \in OggLayouts}

NoAnswer == [done |-> FALSE, raised |-> FALSE, tags |-> EmptyTags]
AnswerOf(out) == [done |-> TRUE, raised |-> out.raised, tags |-> out.tags]

VorbisInit ==
  IdleScan /\ call \in VorbisCalls /\ ret = [flac |-> NoAnswer, ogg |-> NoAnswer]

ParseFLAC ==
  /\ call.fn = "vorbis"
  /\ ~ret.flac.done
  /\ ret' = [ret EXCEPT !.flac = AnswerOf(parseFLAC(call.flac))]
  /\ UNCHANGED <<scanVars, call, uiVars>>

ParseOGG ==
  /\ call.fn = "vorbis"
  /\ ~ret.ogg.done
  /\ ret' = [ret EXCEPT !.ogg = AnswerOf(parseOGG(call.ogg))]
  /\ UNCHANGED <<scanVars, call, uiVars>>

VorbisSpec == VorbisInit /\ [][ParseFLAC \/ ParseOGG]_vars

(* The readers on files with and without their signature *)

\* An MP3 whose header announces an extended header, which it has.
ExtendedMp3Bytes ==
  Id3Header(3, 64, 4 + Len(TextFrame(3, TIT2, Foo)))
  \o <<0, 0, 0, 0>> \o TextFrame(3, TIT2, Foo)

\* The contents with byte p replaced, for p in ps and each of vs, and the
\* contents cut to at most 10 bytes.
Damaged(bytes, ps, vs) ==
  {bytes}
  \cup {[bytes EXCEPT ![p] = v] : p \in ps, v \in vs}
  \cup {TakeFirst(bytes, n) : n \in 0..10}

SignatureFiles ==
  {[fn |-> "parseID3", file |-> FileOf(ExtMp3, << >>, bytes, failAt)] :
     bytes \in UNION {Damaged(b, 1..4, {0, 2, 5, 51, 68, 73, 105, 255}) :
                        b \in {TaggedMp3Bytes, ExtendedMp3Bytes}},
     failAt \in {0, 1}}
  \cup
  {[fn |-> "parseFLAC", file |-> FileOf(ExtFlac, << >>, bytes, failAt)] :
     bytes \in Damaged(TaggedFlacBytes, 1..4, {0, 67, 70, 76, 97, 102, 255}),
     failAt \in {0, 1}}
  \cup
  {[fn |-> "parseOGG", file |-> FileOf(ExtOgg, << >>, bytes, failAt)] :
     bytes \in Damaged(OggFile(<<Str(<<"T","I","T","L","E","=">>) \o Foo>>),
                       1..4, {0, 79, 83, 103, 111, 255}),
     failAt \in {0, 1}}

SignatureInit == IdleScan /\ call \in SignatureFiles /\ ret = NoRet

CallParseFLAC == Call("parseFLAC", Returned(EmptyTags), parseFLAC(call.file))

CallParseOGG == Call("parseOGG", Returned(EmptyTags), parseOGG(call.file))

SignatureSpec == SignatureInit /\ [][ParseID3 \/ CallParseFLAC \/ CallParseOGG]_vars

(* parseM4A on boxes nested in and out of place *)

TrackOne == Str(<<"T","r","a","c","k"," ","O","n","e">>)

AtomFree == Str(<<"f","r","e","e">>)
AtomTrak == Str(<<"t","r","a","k">>)

\* Where the boxes sit: in place, or ilst, meta or udta one level off.
NestPlaces ==
  {"nested", "ilstInUdta", "ilstInMoov", "ilstAtTop", "metaInMoov",
   "udtaAtTop", "udtaInTrak"}

\* The level at which an unrelated box comes first, "none" for nowhere.
NestSiblings == {"none", "top", "moov", "udta", "meta", "ilst"}

NestTexts == {TrackOne, Foo, <<195, 169>>}

\* The file: text in a data box under (c)nam under ilst; meta with or
\* without its version/flags field.
NestedM4a(place, hasVersion, sibling, text) ==
  LET pre(level) == IF sibling = level THEN Box(AtomFree, << >>) ELSE << >>
      ilst == Box(AtomIlst, pre("ilst") \o Box(AtomNam, DataBox(1, text)))
      meta(inner) == Box(AtomMeta, (IF hasVersion THEN <<0, 0, 0, 0>> ELSE << >>)
                                   \o pre("meta") \o inner)
      udta(inner) == Box(AtomUdta, pre("udta") \o inner)
      moov(inner) == Box(AtomMoov, pre("moov") \o inner)
      rest ==
        CASE place = "nested" -> moov(udta(meta(ilst)))
          [] place = "ilstInUdta" -> moov(udta(meta(<< >>) \o ilst))
          [] place = "ilstInMoov" -> moov(udta(meta(<< >>)) \o ilst)
          [] place = "ilstAtTop" -> moov(udta(meta(<< >>))) \o ilst
          [] place = "metaInMoov" -> moov(udta(<< >>) \o meta(ilst))
          [] place = "udtaAtTop" -> moov(<< >>) \o udta(meta(ilst))
          [] place = "udtaInTrak" -> moov(Box(AtomTrak, udta(meta(ilst))))
  IN Box(AtomFtyp, <<0, 0, 0, 0>>) \o pre("top") \o rest

NestCalls ==
  {[fn |-> "parseM4A", place |-> place, hasVersion |-> hasVersion, text |-> text,
    file |-> FileOf(ExtM4a, << >>, NestedM4a(place, hasVersion, sibling, text), 0)] :
     place \in NestPlaces, hasVersion \in BOOLEAN, sibling \in NestSiblings,
     text \in NestTexts}

NestInit == IdleScan /\ call \in NestCalls /\ ret = NoRet

NestSpec == NestInit /\ [][ParseM4A]_vars

(* parseFLAC on picture blocks with wrong lengths *)

\* A picture block of 44 bytes: type 3, the MIME type image/png, no
\* description, three bytes of image; with the lengths it declares.
PictureBlock(mimeLen, descLen, dataLen) ==
  U32(3) \o U32(mimeLen) \o ImagePng \o U32(descLen)
  \o [i \in 1..16 |-> 0] \o U32(dataLen) \o <<1, 2, 3>>

PictureFlac(block, pictureFirst) ==
  LET comments == VorbisBlock(<<Str(<<"T","I","T","L","E","=">>) \o Foo>>)
  IN FlacMagic
     \o (IF pictureFirst
         THEN FlacBlock(FALSE, 6, block) \o FlacBlock(TRUE, 4, comments)
         ELSE FlacBlock(FALSE, 4, comments) \o FlacBlock(TRUE, 6, block))

PictureCalls ==
  {[fn |-> "parseFLAC", block |-> PictureBlock(mimeLen, descLen, dataLen),
    file |-> FileOf(ExtFlac, << >>,
                    PictureFlac(PictureBlock(mimeLen, descLen, dataLen),
                                pictureFirst), 0)] :
     mimeLen \in {9, 32, 33, 34, 35, 36, 37, 4096, 16777216},
     descLen \in {0, 3, 4, 4096},
     dataLen \in {3, 4, 4096},
     pictureFirst \in BOOLEAN}

PictureInit == IdleScan /\ call \in PictureCalls /\ ret = NoRet

PictureSpec == PictureInit /\ [][CallParseFLAC]_vars

(* parseM4A on boxes that declare a size below 8 *)

\* What stands before a box: nothing, one word holding 0 or 4, two zero
\* words, or a size of 0, 4 or 7 followed by the type 'free'.
ShortShapes ==
  {"none", "word0", "word4", "zeros8", "size0box", "size4box", "size7box"}

ShortBox(shape) ==
  CASE shape = "none" -> << >>
    [] shape = "word0" -> U32(0)
    [] shape = "word4" -> U32(4)
    [] shape = "zeros8" -> U32(0) \o U32(0)
    [] shape = "size0box" -> U32(0) \o AtomFree
    [] shape = "size4box" -> U32(4) \o AtomFree
    [] shape = "size7box" -> U32(7) \o SubSeq(AtomFree, 1, 3)

\* The level at which it stands: before moov, udta, meta (after the
\* version/flags field), ilst, the first item of ilst, the second item, or
\* the data box of the first item.
ShortLevels == {"top", "moov", "udta", "meta", "ilst", "ilstMid", "item"}

\* The levels walked by findAtom, the others by the item loop.
SearchLevels == {"top", "moov", "udta", "meta", "item"}

\* The file: title text and artist Bar as the two items of ilst.
ShortM4a(level, shape, text) ==
  LET pre(at) == IF level = at THEN ShortBox(shape) ELSE << >>
      nam == Box(AtomNam, pre("item") \o DataBox(1, text))
      art == Box(AtomART, DataBox(1, Bar))
      ilst == Box(AtomIlst, pre("ilst") \o nam \o pre("ilstMid") \o art)
      meta == Box(AtomMeta, <<0, 0, 0, 0>> \o pre("meta") \o ilst)
      udta == Box(AtomUdta, pre("udta") \o meta)
      moov == Box(AtomMoov, pre("moov") \o udta)
  IN Box(AtomFtyp, <<0, 0, 0, 0>>) \o pre("top") \o moov

ShortCalls ==
  {[fn |-> "parseM4A", level |-> level, shape |-> shape, text |-> text,
    file |-> FileOf(ExtM4a, << >>, ShortM4a(level, shape, text), 0)] :
     level \in ShortLevels, shape \in ShortShapes, text \in {Foo, TrackOne}}

ShortInit == IdleScan /\ call \in ShortCalls /\ ret = NoRet

ShortSpec == ShortInit /\ [][ParseM4A]_vars

(* parseID3 on text frames with a terminator *)

\* The bytes of an ASCII text in an ID3 text encoding: one byte per
\* character for 0 and 3, two for 1 (little-endian here) and 2.
RECURSIVE Wide(_, _)
Wide(text, littleEndian) ==
  IF text = << >> THEN << >>
  ELSE (IF littleEndian THEN <<Head(text), 0>> ELSE <<0, Head(text)>>)
       \o Wide(Tail(text), littleEndian)

Encoded(text, encoding) ==
  CASE encoding = 1 -> Wide(text, TRUE)
    [] encoding = 2 -> Wide(text, FALSE)
    [] OTHER -> text

ByteOrderMark(encoding) == IF encoding = 1 THEN <<255, 254>> ELSE << >>

Terminator(encoding) == IF encoding \in {1, 2} THEN <<0, 0>> ELSE <<0>>

\* The payload of a text frame: the selector, the text, and when
\* terminated the terminator and what follows it.
TextPayload(encoding, text, terminated, rest) ==
  <<encoding>> \o ByteOrderMark(encoding) \o Encoded(text, encoding)
  \o (IF terminated THEN Terminator(encoding) \o Encoded(rest, encoding)
      ELSE << >>)

TextCalls ==
  {[fn |-> "parseID3", encoding |-> encoding, text |-> text,
    terminated |-> terminated, rest |-> rest,
    file |-> FileOf(ExtMp3, << >>,
               Id3File(major, 0,
                 Id3Frame(major, TIT2,
                          TextPayload(encoding, text, terminated, rest))), 0)] :
     major \in {3, 4}, encoding \in 0..3, text \in {Foo, Bar},
     terminated \in BOOLEAN, rest \in {<< >>, <<90>>, TrackOne}}

TextInit == IdleScan /\ call \in TextCalls /\ ret = NoRet

TextSpec == TextInit /\ [][ParseID3]_vars

(* parseID3 on a frame between two text frames *)

TXXX == Str(<<"T","X","X","X">>)

\* What stands between the title frame and the artist frame: nothing, a
\* frame the reader does not want, with a payload or with none, an album
\* frame with no payload, ten bytes of padding, or a frame that declares
\* more bytes than the body has left.
Middles ==
  {"none", "unknown", "unknownEmpty", "wantedEmpty", "padding", "oversize"}

MiddleFrame(major, middle) ==
  CASE middle = "none" -> << >>
    [] middle = "unknown" -> Id3Frame(major, TXXX, <<3, 0>> \o Foo)
    [] middle = "unknownEmpty" -> Id3Frame(major, TXXX, << >>)
    [] middle = "wantedEmpty" -> Id3Frame(major, TALB, << >>)
    [] middle = "padding" -> [i \in 1..10 |-> 0]
    [] middle = "oversize" ->
         TakeFirst(Id3Frame(major, TXXX, [i \in 1..100 |-> 65]), 10)

\* The tag body: the title frame when there is one, the middle, the
\* artist frame.
FramedBody(major, first, middle, last) ==
  (IF first = Null THEN << >> ELSE TextFrame(major, TIT2, first))
  \o MiddleFrame(major, middle) \o TextFrame(major, TPE1, last)

FrameCalls ==
  {[fn |-> "parseID3", first |-> first, middle |-> middle, last |-> last,
    file |-> FileOf(ExtMp3, << >>,
               Id3File(major, 0, FramedBody(major, first, middle, last)), 0)] :
     major \in {3, 4}, first \in {Null, Foo, TrackOne}, middle \in Middles,
     last \in {Bar, Foo}}

FrameInit == IdleScan /\ call \in FrameCalls /\ ret = NoRet

FrameSpec == FrameInit /\ [][ParseID3]_vars

(* parseID3 on text frames with any selector byte *)

\* Selector bytes: two the reader knows, and four it does not.
Selectors == {0, 3, 4, 5, 127, 255}

\* Payloads after the selector: ASCII, a byte above 127, a null inside.
SelectorTexts == {Foo, <<70, 233>>, <<70, 0, 90>>}

\* The tag: artist Bar with selector 0, the field's frame with the
\* selector, album Bar or title Bar with selector 3.
SelectorBody(major, id, selector, text) ==
  Id3Frame(major, TPE1, <<0>> \o Bar)
  \o Id3Frame(major, id, <<selector>> \o text)
  \o TextFrame(major, IF id = TALB THEN TIT2 ELSE TALB, Bar)

SelectorCalls ==
  {[fn |-> "parseID3", id |-> id, selector |-> selector, text |-> text,
    file |-> FileOf(ExtMp3, << >>,
               Id3File(major, 0, SelectorBody(major, id, selector, text)), 0)] :
     major \in {3, 4}, id \in {TIT2, TALB, TRCK}, selector \in Selectors,
     text \in SelectorTexts}

SelectorInit == IdleScan /\ call \in SelectorCalls /\ ret = NoRet

SelectorSpec == SelectorInit /\ [][ParseID3]_vars

(* parseFLAC and parseOGG on METADATA_BLOCK_PICTURE comments *)

\* The base64 text of bytes, the inverse of atob.
Base64Char(v) ==
  IF v < 26 THEN 65 + v
  ELSE IF v < 52 THEN 97 + (v - 26)
  ELSE IF v < 62 THEN 48 + (v - 52)
  ELSE IF v = 62 THEN 43 ELSE 47

RECURSIVE Base64Encode(_)
Base64Encode(bytes) ==
  IF bytes = << >> THEN << >>
  ELSE IF Len(bytes) = 1
  THEN <<Base64Char(bytes[1] \div 4), Base64Char((bytes[1] % 4) * 16), 61, 61>>
  ELSE IF Len(bytes) = 2
  THEN <<Base64Char(bytes[1] \div 4),
         Base64Char((bytes[1] % 4) * 16 + bytes[2] \div 16),
         Base64Char((bytes[2] % 16) * 4), 61>>
  ELSE <<Base64Char(bytes[1] \div 4),
         Base64Char((bytes[1] % 4) * 16 + bytes[2] \div 16),
         Base64Char((bytes[2] % 16) * 4 + bytes[3] \div 64),
         Base64Char(bytes[3] % 64)>> \o Base64Encode(DropFirst(bytes, 3))

\* Values of the comment: [text, block], block being the picture block the
\* text is the base64 of, empty when it is the base64 of none.
NotBase64 ==
  {[text |-> t, block |-> << >>] :
     t \in {<< >>, <<33, 33, 33, 33>>, <<65>>, <<65, 65, 65, 65, 61>>,
            TakeFirst(Base64Encode(PictureBlock(9, 0, 3)), 41)}}

EncodedPictures ==
  {[text |-> Base64Encode(b), block |-> b] :
     b \in {PictureBlock(mimeLen, descLen, dataLen) :
              mimeLen \in {9, 33, 36, 37, 4096}, descLen \in {0, 4096},
              dataLen \in {3, 4096}}
           \cup {TakeFirst(PictureBlock(9, 0, 3), 10)}}

\* The comments: TITLE, the picture first or second, then ARTIST, ALBUM and
\* TRACKNUMBER.
PictureComments(text, pictureFirst) ==
  LET picture == KeyPicture \o <<61>> \o text
      title == KeyTitle \o <<61>> \o Foo
      rest == <<KeyArtist \o <<61>> \o Bar, KeyAlbum \o <<61>> \o Foo,
                KeyTrackNumber \o <<61, 55>> >>
  IN (IF pictureFirst THEN <<picture, title>> ELSE <<title, picture>>) \o rest

CommentCalls ==
  {[fn |-> reader, block |-> v.block, text |-> v.text,
    file |-> IF reader = "parseFLAC"
             THEN FileOf(ExtFlac, << >>,
                         FlacFile(PictureComments(v.text, pictureFirst)), 0)
             ELSE FileOf(ExtOgg, << >>,
                         OggFile(PictureComments(v.text, pictureFirst)), 0)] :
     reader \in {"parseFLAC", "parseOGG"}, v \in NotBase64 \cup EncodedPictures,
     pictureFirst \in BOOLEAN}

CommentInit == IdleScan /\ call \in CommentCalls /\ ret = NoRet

CommentSpec == CommentInit /\ [][CallParseFLAC \/ CallParseOGG]_vars

(* parseID3 on APIC frames *)

\* What follows the selector and the MIME type image/png in the frame:
\* nothing ("mimeOpen": the MIME type has no terminator), its terminator
\* only ("noType"), or the terminator, the picture type and a description:
\* empty or AB with its terminator, AB without one ("descOpen"), or A and
\* one more byte without one ("descOdd").
ApicShapes ==
  {"mimeOpen", "noType", "descEmpty", "descEnded", "descOpen", "descOdd"}

ApicPayload(encoding, shape, image) ==
  LET A == <<65>>
      AB == <<65, 66>>
      desc == CASE shape = "descEmpty" -> Terminator(encoding)
                [] shape = "descEnded" ->
                     ByteOrderMark(encoding) \o Encoded(AB, encoding)
                     \o Terminator(encoding)
                [] shape = "descOpen" ->
                     ByteOrderMark(encoding) \o Encoded(AB, encoding)
                [] shape = "descOdd" ->
                     ByteOrderMark(encoding) \o Encoded(A, encoding) \o <<66>>
                [] OTHER -> << >>
  IN <<encoding>> \o ImagePng
     \o (IF shape = "mimeOpen" THEN << >>
         ELSE IF shape = "noType" THEN <<0>>
         ELSE <<0, 3>> \o desc \o image)

\* The description has its terminator in the frame.
ApicEnded(shape) == shape \in {"descEmpty", "descEnded"}

\* The tag: title Foo, the APIC frame, artist Bar.
ApicBody(major, encoding, shape, image) ==
  TextFrame(major, TIT2, Foo)
  \o Id3Frame(major, APIC, ApicPayload(encoding, shape, image))
  \o TextFrame(major, TPE1, Bar)

ApicCalls ==
  {[fn |-> "parseID3", encoding |-> encoding, shape |-> shape, image |-> image,
    file |-> FileOf(ExtMp3, << >>,
               Id3File(major, 0, ApicBody(major, encoding, shape, image)), 0)] :
     major \in {3, 4}, encoding \in 0..3,
     shape \in ApicShapes, image \in {<< >>, <<9, 9, 9>>}}

\* Image bytes come only after a terminated description.
ApicInit ==
  /\ IdleScan
  /\ call \in {c \in ApicCalls : c.image = << >> \/ ApicEnded(c.shape)}
  /\ ret = NoRet

ApicSpec == ApicInit /\ [][ParseID3]_vars

(* parseOGG page by page *)

MaxPages == 12

\* Kinds of page: the identification header, a comment header with a
\* title, with an artist only, with an album only, with an empty title,
\* with another title, and a page with no header.
OggPageOf(kind) ==
  LET header(comment) == OggPage(VorbisSignature \o VorbisBlock(<<comment>>))
  IN CASE kind = "id" -> OggPage(<<1>> \o Str(<<"v","o","r","b","i","s">>))
       [] kind = "titled" -> header(KeyTitle \o <<61>> \o Foo)
       [] kind = "artist" -> header(KeyArtist \o <<61>> \o Foo)
       [] kind = "album" -> header(KeyAlbum \o <<61>> \o Foo)
       [] kind = "emptyTitle" -> header(KeyTitle \o <<61>>)
       [] kind = "later" -> header(KeyTitle \o <<61>> \o Bar)
       [] OTHER -> OggPage(<<9, 9, 9>>)

\* The pages of a file of n pages: page 0 is first; page hit is hitKind
\* (no such page when hit = n); the pages before it are filler, those
\* after it are "later".
OggKinds(n, first, hit, hitKind, filler) ==
  [k \in 1..n |-> IF k - 1 = 0 THEN first
                  ELSE IF k - 1 = hit THEN hitKind
                  ELSE IF k - 1 < hit THEN filler ELSE "later"]

OggPagesCalls ==
  {[fn |-> "parseOGG", n |-> n, first |-> first, hit |-> hit,
    hitKind |-> hitKind, filler |-> filler,
    file |-> FileOf(ExtOgg, << >>,
               Concat([k \in 1..n |->
                 OggPageOf(OggKinds(n, first, hit, hitKind, filler)[k])]), 0)] :
     n \in {1, 2, 3, 4, MaxPages - 2, MaxPages - 1, MaxPages},
     first \in {"id", "titled"}, hit \in 1..MaxPages,
     hitKind \in {"titled", "artist"},
     filler \in {"album", "emptyTitle", "other"}}

NoPages == [done |-> FALSE, tags |-> EmptyTags, decoded |-> << >>, pages |-> 0]

OggPagesInit ==
  /\ IdleScan
  /\ call \in {c \in OggPagesCalls : c.hit <= c.n}
  /\ ret = NoPages

\* parseOGG (l.174-223) with what its loop did: the pages whose body went
\* to the comment decoder and the number of pages examined.
OggExamined(file) ==
  LET buf == BlobSlice(file.bytes, 0, Min(Len(file.bytes), OggReadLimit))
  IN IF ReadFails(file, 1) \/ Len(buf) < 28
     THEN [tags |-> EmptyTags, decoded |-> << >>, pages |-> 0]
     ELSE OggPages(buf, 0, 0, EmptyTags, << >>)

ExamineOGG ==
  /\ call.fn = "parseOGG"
  /\ ~ret.done
  /\ \E out \in {OggExamined(call.file)} :
       ret' = [done |-> TRUE, tags |-> out.tags, decoded |-> out.decoded,
               pages |-> out.pages]
  /\ UNCHANGED <<scanVars, call, uiVars>>

OggPagesSpec == OggPagesInit /\ [][ExamineOGG]_vars

(* decodeSyncsafe *)

\* Byte values: with and without the high bit.
SyncsafeBytes == {0, 1, 2, 64, 127, 128, 129, 130, 255}

SyncsafeCalls ==
  {[fn |-> "decodeSyncsafe", bytes |-> <<b0, b1, b2, b3>>] :
     b0 \in SyncsafeBytes, b1 \in SyncsafeBytes, b2 \in SyncsafeBytes,
     b3 \in SyncsafeBytes}

NoNumber == [done |-> FALSE, value |-> 0, cleared |-> 0]

SyncsafeInit == IdleScan /\ call \in SyncsafeCalls /\ ret = NoNumber

\* The same bytes with their high bits cleared.
HighBitsCleared(bytes) == [i \in 1..Len(bytes) |-> bytes[i] % 128]

\* decodeSyncsafe(view, 0) on the four bytes, and on the four bytes with
\* their high bits cleared.  The operands of << stay below 2^7, so that no
\* result reaches the sign bit of the 32-bit integer JS computes with.
DecodeSyncsafe ==
  /\ call.fn = "decodeSyncsafe"
  /\ ~ret.done
  /\ ret' = [done |-> TRUE, value |-> decodeSyncsafe(call.bytes, 0),
             cleared |-> decodeSyncsafe(HighBitsCleared(call.bytes), 0)]
  /\ UNCHANGED <<scanVars, call, uiVars>>

SyncsafeSpec == SyncsafeInit /\ [][DecodeSyncsafe]_vars

(* Grouping of records whose names hold the separator's character *)

\* Album and artist names with and without "|" at the joint, and the
\* names that stand for a missing one.
KeyAlbums ==
  {Alb, Alb \o <<124>>, Alb \o KeySeparator \o Art, Null, UnknownAlbum}

KeyArtists ==
  {Art, <<124>> \o Art, Alb \o KeySeparator \o Art, Null, UnknownArtist}

\* Two records, of the files a.mp3 and b.mp3.
KeyCalls ==
  {[fn |-> "group", ver |-> ver,
    parsed |-> <<GroupRecord(1, Str(<<"a",".","m","p","3">>),
                             TagsOf(One, artist1, album1, Null), NoPicture),
                 GroupRecord(2, Str(<<"b",".","m","p","3">>),
                             TagsOf(One, artist2, album2, Null), NoPicture)>>] :
     ver \in {1, 2}, album1 \in KeyAlbums, artist1 \in KeyArtists,
     album2 \in KeyAlbums, artist2 \in KeyArtists}

KeyInit == IdleScan /\ call \in KeyCalls /\ ret = NoGrouping

KeySpec == KeyInit /\ [][Group]_vars

----------------------------------------------------------------------------
(* app.js: the carousel, the detail view and the loads that replace the list *)

MaxTimers == 2
AlbumIds == {"A", "B", "C"}

\* The album lists a load can deliver: the same library, a reordered one,
\* a shorter one, a longer one, and none.
Libraries == {<<"A", "B">>, <<"B", "A">>, <<"A">>, <<"A", "B", "C">>, << >>}

\* albums[i] of JavaScript: undefined past the end of the array
AlbumAt(list, i) ==
  IF i \in 0..(Len(list) - 1) THEN list[i + 1] ELSE "undefined"

\* expand(i), app.js l.94-110: nothing when a card is expanded already,
\* otherwise the detail view opens on albums[i] of the list as it is now.
\* clicked is the album the card showed when it was clicked.
expand(a, i, clicked) ==
  IF a.expanded # -1 THEN a
  ELSE [a EXCEPT !.expanded = i,
                 !.opened = [album |-> AlbumAt(a.albums, i), clicked |-> clicked]]

\* populateCarousel, app.js l.53-71, with setAlbums of the carousel: an
\* open detail view is closed, the list is replaced, the selection returns
\* to the first card.  The timers are left as they are.
populateCarousel(a, newAlbums) ==
  [a EXCEPT !.expanded = -1,
            !.opened = IF a.expanded # -1 THEN NoOpened ELSE a.opened,
            !.albums = newAlbums,
            !.selectedIndex = 0]

\* setTimeout(f, 470) of collapse against the setTimeout(f, 500) of the
\* clicks before it: the cleanup comes after every earlier cleanup, and
\* before or after each pending expand as the times fall.
WithCleanup(timers) ==
  LET last == IF \E k \in 1..Len(timers) : timers[k].kind = "cleanup"
              THEN CHOOSE k \in 1..Len(timers) :
                     /\ timers[k].kind = "cleanup"
                     /\ \A m \in (k + 1)..Len(timers) : timers[m].kind # "cleanup"
              ELSE 0
  IN {SubSeq(timers, 1, k) \o <<[kind |-> "cleanup", i |-> 0, clicked |-> "none"]>>
        \o SubSeq(timers, k + 1, Len(timers)) : k \in last..Len(timers)}

AppInit ==
  /\ ScanAtRest
  /\ call = NoCall
  /\ ret = NoRet
  /\ player = NoPlayer
  /\ \E list \in Libraries \ {<< >>}, handle \in BOOLEAN :
       \E busy \in IF handle THEN {{}, {"doRescan"}} ELSE {{}} :
         app = [NoApp EXCEPT !.albums = list, !.storedHandle = handle,
                             !.loading = busy]

\* The 'card-click' listener, app.js l.82-92, on a card of the list shown.
CardClick(i) ==
  /\ i \in 0..(Len(app.albums) - 1)
  /\ app.expanded = -1
  /\ IF app.selectedIndex # i
     THEN /\ Len(app.timers) < MaxTimers
          /\ app' = [app EXCEPT
               !.selectedIndex = i,
               !.timers = Append(@, [kind |-> "expand", i |-> i,
                                     clicked |-> AlbumAt(app.albums, i)])]
     ELSE app' = expand(app, i, AlbumAt(app.albums, i))
  /\ UNCHANGED <<scanVars, callVars, player>>

\* The oldest timer fires: the delayed expand(i) of l.88, or the cleanup of
\* collapse (l.125-128).
Timeout ==
  /\ app.timers # << >>
  /\ LET t == Head(app.timers)
         rest == [app EXCEPT !.timers = Tail(@)]
     IN app' = IF t.kind = "expand" THEN expand(rest, t.i, t.clicked)
               ELSE [rest EXCEPT !.expanded = -1]
  /\ UNCHANGED <<scanVars, callVars, player>>

\* collapse, app.js l.112-129, on 'detail-close': the view closes at once,
\* expanded is reset by the second timer.
Collapse ==
  /\ app.expanded # -1
  /\ Len(app.timers) < MaxTimers
  /\ \E timers \in WithCleanup(app.timers) :
       app' = [app EXCEPT !.opened = NoOpened, !.timers = timers]
  /\ UNCHANGED <<scanVars, callVars, player>>

\* A click on the folder button (l.171), the rescan button (l.199) or the
\* auth banner (l.229) starts a load and returns at its await.  The buttons
\* are hidden while a card is expanded (l.102-105).
StartLoad(kind) ==
  /\ kind \in {"folder", "rescan", "doRescan"}
  /\ kind \notin app.loading
  /\ app.expanded = -1
  /\ kind # "folder" => app.storedHandle
  /\ app' = [app EXCEPT !.loading = @ \cup {kind}]
  /\ UNCHANGED <<scanVars, callVars, player>>

\* The load resolves with a list of albums: l.176-183 (folder, nothing for
\* an empty list), l.207-211 (rescan button), doRescan l.241-251 (nothing
\* for an empty list).
LoadDone(kind, newAlbums) ==
  /\ kind \in app.loading
  /\ newAlbums \in Libraries
  /\ LET a == [app EXCEPT !.loading = @ \ {kind}]
     IN app' = IF kind # "rescan" /\ newAlbums = << >> THEN a
               ELSE [populateCarousel(a, newAlbums) EXCEPT
                       !.storedHandle = @ \/ kind = "folder"]
  /\ UNCHANGED <<scanVars, callVars, player>>

AppNext ==
  \/ \E i \in 0..2 : CardClick(i)
  \/ Timeout
  \/ Collapse
  \/ \E kind \in {"folder", "rescan", "doRescan"} : StartLoad(kind)
  \/ \E kind \in {"folder", "rescan", "doRescan"}, list \in Libraries :
       LoadDone(kind, list)

AppSpec == AppInit /\ [][AppNext]_vars

----------------------------------------------------------------------------
(* player.js: the album, the track index and the audio element *)

MaxPlays == 4

\* Two albums; a track is known by its path.
Discs == <<[tracks |-> <<"p1", "p2", "p3">>], [tracks |-> <<"q1">>]>>

\* The maps setFileMap is given: every file, one without p2, one without q1.
FileMaps == {{"p1", "p2", "p3", "q1"}, {"p1", "p3", "q1"}, {"p1", "p2", "p3"}}

\* currentAlbum.tracks
AlbumTracks(album) == Discs[album].tracks

\* A faulty playTrack, which creates the new URL without revoking the one
\* before it.
playTrackLeaking(p, idx) ==
  IF p.currentAlbum = 0 \/ idx < 0 \/ idx >= Len(AlbumTracks(p.currentAlbum))
  THEN p
  ELSE LET path == AlbumTracks(p.currentAlbum)[idx + 1]
           url == p.created + 1
       IN IF path \notin p.fileMap THEN p
          ELSE [p EXCEPT
                  !.currentTrackIndex = idx,
                  !.created = url,
                  !.currentBlobURL = url,
                  !.src = [url |-> url, path |-> path,
                           album |-> p.currentAlbum, index |-> idx],
                  !.paused = FALSE]

\* playTrack, part_002 l.370-395
playTrack(p, idx) ==
  IF p.currentAlbum = 0 \/ idx < 0 \/ idx >= Len(AlbumTracks(p.currentAlbum))
  THEN p
  ELSE LET path == AlbumTracks(p.currentAlbum)[idx + 1]
           url == p.created + 1
       IN IF path \notin p.fileMap THEN p
          ELSE [p EXCEPT
                  !.revoked = IF p.currentBlobURL # 0
                              THEN @ \cup {p.currentBlobURL} ELSE @,
                  !.currentTrackIndex = idx,
                  !.created = url,
                  !.currentBlobURL = url,
                  !.src = [url |-> url, path |-> path,
                           album |-> p.currentAlbum, index |-> idx],
                  !.paused = FALSE]

\* loadAlbum, part_002 l.305-308
loadAlbum(p, album, startIndex) ==
  playTrack([p EXCEPT !.currentAlbum = album], startIndex)

\* next, part_002 l.323-333
next(p) ==
  IF p.currentAlbum = 0 THEN p
  ELSE IF p.currentTrackIndex + 1 < Len(AlbumTracks(p.currentAlbum))
       THEN playTrack(p, p.currentTrackIndex + 1)
       ELSE [p EXCEPT !.paused = TRUE]

\* prev, part_002 l.335-348; late is audio.currentTime > 3
prev(p, late) ==
  IF p.currentAlbum = 0 THEN p
  ELSE IF late /\ p.currentTrackIndex >= 0 THEN p
       ELSE IF p.currentTrackIndex - 1 >= 0
            THEN playTrack(p, p.currentTrackIndex - 1)
            ELSE p

\* getState, part_002 l.355-364: the album, the track and its index
getState(p) ==
  [album |-> p.currentAlbum,
   track |-> IF /\ p.currentAlbum # 0
                /\ p.currentTrackIndex \in 0..(Len(AlbumTracks(p.currentAlbum)) - 1)
             THEN AlbumTracks(p.currentAlbum)[p.currentTrackIndex + 1]
             ELSE "null",
   trackIndex |-> p.currentTrackIndex]

PlayerInit ==
  /\ ScanAtRest
  /\ call = NoCall
  /\ ret = NoRet
  /\ app = NoApp
  /\ player = NoPlayer

\* setFileMap, part_002 l.297-299
SetFileMap(map) ==
  /\ player.fileMap # map
  /\ player' = [player EXCEPT !.fileMap = map]
  /\ UNCHANGED <<scanVars, callVars, app>>

\* 'track-play' of the detail view (app.js l.140-144) calls loadAlbum
LoadAlbum(album, startIndex) ==
  /\ player.created < MaxPlays
  /\ player' = loadAlbum(player, album, startIndex)
  /\ UNCHANGED <<scanVars, callVars, app>>

\* 'bar-next', the media session's 'nexttrack' and the audio element's
\* 'ended' call next
NextTrack ==
  /\ player.created < MaxPlays
  /\ player' = next(player)
  /\ UNCHANGED <<scanVars, callVars, app>>

\* 'bar-prev' and the media session's 'previoustrack' call prev
PrevTrack(late) ==
  /\ player.created < MaxPlays
  /\ player' = prev(player, late)
  /\ UNCHANGED <<scanVars, callVars, app>>

PlayerNext ==
  \/ \E map \in FileMaps : SetFileMap(map)
  \/ \E album \in 1..Len(Discs), startIndex \in -1..3 : LoadAlbum(album, startIndex)
  \/ NextTrack
  \/ \E late \in BOOLEAN : PrevTrack(late)

PlayerSpec == PlayerInit /\ [][PlayerNext]_vars

----------------------------------------------------------------------------
(* app.js with lazy durations (part_001): currentFileMap and the player's map *)

\* part_001 l.5-14 with the carousel and the player: app.js as above, with
\* currentFileMap (<< >> for null, <<map>> for a map).  populatedBy is the handler whose scan
\* last reached populateCarousel.
NoMapApp ==
  [albums |-> << >>, expanded |-> -1, selectedIndex |-> 0, timers |-> << >>,
   loading |-> {}, storedHandle |-> FALSE, opened |-> NoOpened,
   currentFileMap |-> << >>, populatedBy |-> "none"]

\* The five ways a scan is started: the folder button (l.271-280), the file
\* input (l.283-302), the rescan button (l.308-330), the auth banner
\* (l.333-350) and init (l.366-410), the last two through doRescan.
ScanKinds == {"folder", "picked", "rescan", "permission", "startup"}

\* What a scan resolves with: null, or the albums with their file map.
NoResult == [albums |-> << >>, fileMap |-> {}, null |-> TRUE]
ScanResults ==
  {NoResult} \cup
  {[albums |-> list, fileMap |-> map, null |-> FALSE] :
     list \in Libraries, map \in FileMaps}

\* player.setFileMap(map), part_002 l.297-299
setFileMap(p, map) == [p EXCEPT !.fileMap = map]

\* handleFolderResult, part_001 l.244-266
handleFolderResult(a, p, kind, result) ==
  IF result.albums = << >> THEN [app |-> a, player |-> p]
  ELSE [app |-> [populateCarousel(a, result.albums) EXCEPT
                   !.currentFileMap = <<result.fileMap>>,
                   !.populatedBy = kind,
                   !.storedHandle = @ \/ kind = "folder"],
        player |-> setFileMap(p, result.fileMap)]

\* The rescan button's handler after its await, part_001 l.314-324
rescanClicked(a, p, result) ==
  [app |-> [populateCarousel(a, result.albums) EXCEPT !.populatedBy = "rescan"],
   player |-> setFileMap(p, result.fileMap)]

\* doRescan after its await, part_001 l.352-363
doRescan(a, p, kind, result) ==
  [app |-> IF result.albums # << >>
           THEN [populateCarousel(a, result.albums) EXCEPT
                   !.currentFileMap = <<result.fileMap>>, !.populatedBy = kind]
           ELSE [a EXCEPT !.currentFileMap = <<result.fileMap>>],
   player |-> setFileMap(p, result.fileMap)]

MapInit ==
  /\ ScanAtRest
  /\ call = NoCall
  /\ ret = NoRet
  /\ player = NoPlayer
  /\ \E list \in Libraries \ {<< >>}, handle \in BOOLEAN :
       \E busy \in IF handle THEN {{}, {"startup"}} ELSE {{}} :
         app = [NoMapApp EXCEPT !.albums = list, !.storedHandle = handle,
                                !.loading = busy]

\* A handler runs up to its await.  The rescan button and the permission
\* request need the stored handle.
StartScan(kind) ==
  /\ kind \in ScanKinds \ {"startup"}
  /\ kind \notin app.loading
  /\ kind \in {"rescan", "permission"} => app.storedHandle
  /\ app' = [app EXCEPT !.loading = @ \cup {kind}]
  /\ UNCHANGED <<scanVars, callVars, player>>

\* The scan resolves and the handler goes on after its await.
ScanDone(kind, result) ==
  /\ kind \in app.loading
  /\ result \in ScanResults
  /\ LET a == [app EXCEPT !.loading = @ \ {kind}]
         after == IF result.null THEN [app |-> a, player |-> player]
                  ELSE IF kind \in {"folder", "picked"}
                       THEN handleFolderResult(a, player, kind, result)
                  ELSE IF kind = "rescan"
                       THEN rescanClicked(a, player, result)
                  ELSE doRescan(a, player, kind, result)
     IN /\ app' = after.app
        /\ player' = after.player
  /\ UNCHANGED <<scanVars, callVars>>

MapNext ==
  \/ \E kind \in ScanKinds : StartScan(kind)
  \/ \E kind \in ScanKinds, result \in ScanResults : ScanDone(kind, result)

MapSpec == MapInit /\ [][MapNext]_vars

----------------------------------------------------------------------------
(* The readers' loops, one iteration at a time *)

\* What one iteration of a loop does: it leaves the loop (break, return,
\* exception, or the loop condition fails), or it goes on at cursor pos
\* with the record as it is then.
ExitLoop(pos, result) == [exit |-> TRUE, pos |-> pos, tags |-> result]
GoOn(pos, result) == [exit |-> FALSE, pos |-> pos, tags |-> result]

\* parseID3's frame loop, file-loader.js l.732-765
ID3Step(body, major, pos, result) ==
  IF ~(pos + 10 <= Len(body)) THEN ExitLoop(pos, result)
  ELSE
    LET frameId == <<getUint8(body, pos), getUint8(body, pos + 1),
                     getUint8(body, pos + 2), getUint8(body, pos + 3)>>
        frameSize == IF major = 4 THEN decodeSyncsafe(body, pos + 4)
                     ELSE getUint32(body, pos + 4)
        data == pos + 10
    IN IF frameId[1] = 0 THEN ExitLoop(pos, result)
       ELSE IF frameSize = 0 \/ data + frameSize > Len(body)
       THEN ExitLoop(data, result)
       ELSE GoOn(data + frameSize,
                 ID3ApplyFrame(result, frameId, Bytes(body, data, frameSize)))

\* parseFLAC's block loop, ring-math.js l.148-165
FlacStep(buf, pos, result) ==
  IF ~(pos + 4 <= Len(buf)) THEN ExitLoop(pos, result)
  ELSE
    LET isLast == getUint8(buf, pos) \div 128 = 1
        blockType == getUint8(buf, pos) % 128
        blockLen == (getUint8(buf, pos + 1) * 256 + getUint8(buf, pos + 2))
                    * 256 + getUint8(buf, pos + 3)
        at == pos + 4
        after == FlacApplyBlock(blockType, Bytes(buf, at, blockLen), result)
    IN IF at + blockLen > Len(buf) THEN ExitLoop(at, result)
       ELSE IF after.raised THEN ExitLoop(at, result)
       ELSE IF isLast THEN ExitLoop(at + blockLen, after.tags)
       ELSE GoOn(at + blockLen, after.tags)

\* parseOGG's page loop, ring-math.js l.190-220
OggStep(buf, pageStart, pageCount, result) ==
  IF ~(pageStart + 27 <= Len(buf) /\ pageCount < OggPageBudget)
  THEN ExitLoop(pageStart, result)
  ELSE IF Bytes(buf, pageStart, 4) # OggS THEN ExitLoop(pageStart, result)
  ELSE
    LET numSegments == buf[pageStart + 26 + 1]
        bodyStart == pageStart + 27 + numSegments
    IN IF bodyStart > Len(buf) THEN ExitLoop(pageStart, result)
       ELSE
         LET bodySize == SumBytes(buf, pageStart + 27, numSegments)
             fits == pageCount >= 1 /\ bodyStart + bodySize <= Len(buf)
             body == IF fits THEN Bytes(buf, bodyStart, bodySize) ELSE << >>
             commentStart == IF fits THEN findVorbisCommentStart(body) ELSE -1
             hasComment == fits /\ commentStart >= 0 /\ commentStart < Len(body)
             after == IF hasComment
                      THEN parseVorbisComment(DropFirst(body, commentStart), result)
                      ELSE result
         IN IF hasComment /\ (Truthy(after.title) \/ Truthy(after.artist))
            THEN ExitLoop(pageStart, after)
            ELSE GoOn(bodyStart + bodySize, after)

\* parseVorbisComment's comment loop, ring-math.js l.312-342
VorbisStep(view, count, i, pos, result) ==
  IF ~(i < count /\ pos + 4 <= Len(view)) THEN ExitLoop(pos, result)
  ELSE LET commentLen == getUint32LE(view, pos)
           at == pos + 4
       IN IF at + commentLen > Len(view) THEN ExitLoop(at, result)
          ELSE GoOn(at + commentLen,
                    VorbisApplyComment(result, Bytes(view, at, commentLen)))

\* A faulty walk, which on a size below 8 goes round again where it is:
\* it lacks pos += 4.
findAtomStepStuck(view, pos, end, name) ==
  IF ~(pos + 8 <= end) THEN ExitLoop(pos, EmptyTags)
  ELSE LET size == getUint32(view, pos)
       IN IF size < 8 THEN GoOn(pos, EmptyTags)
          ELSE IF pos + size > end THEN ExitLoop(pos, EmptyTags)
          ELSE IF AtomType(view, pos) = name THEN ExitLoop(pos, EmptyTags)
          ELSE GoOn(pos + size, EmptyTags)

\* findAtom's walk, ring-math.js l.383-405
findAtomStep(view, pos, end, name) ==
  IF ~(pos + 8 <= end) THEN ExitLoop(pos, EmptyTags)
  ELSE LET size == getUint32(view, pos)
       IN IF size < 8 THEN GoOn(pos + 4, EmptyTags)
          ELSE IF pos + size > end THEN ExitLoop(pos, EmptyTags)
          ELSE IF AtomType(view, pos) = name THEN ExitLoop(pos, EmptyTags)
          ELSE GoOn(pos + size, EmptyTags)

\* parseM4A's loop over the items of ilst, ring-math.js l.257-293
IlstStep(view, pos, end, result) ==
  IF ~(pos + 8 <= end) THEN ExitLoop(pos, result)
  ELSE
    LET atomSize == getUint32(view, pos)
    IN IF atomSize < 8 \/ pos + atomSize > end THEN ExitLoop(pos, result)
       ELSE LET after == M4AApplyItem(view, pos, atomSize, result)
            IN IF after.raised THEN ExitLoop(pos, result)
               ELSE GoOn(pos + atomSize, after.tags)

MaxPieces == 3

\* What the inputs of a loop are put together from: for each loop entries
\* that declare no bytes, fewer than the header takes, their true size and
\* far more than the input holds, one that ends the loop, and a cut-off tail.
WalkPieces(loop) ==
  CASE loop = "id3v3" ->
         {Id3Frame(3, TIT2, << >>), TextFrame(3, TIT2, Foo),
          [i \in 1..10 |-> 0],
          TakeFirst(Id3Frame(3, TXXX, [i \in 1..100 |-> 65]), 10), <<84, 73>>}
    [] loop = "id3v4" ->
         {Id3Frame(4, TIT2, << >>), TextFrame(4, TIT2, Foo),
          [i \in 1..10 |-> 0],
          TakeFirst(Id3Frame(4, TXXX, [i \in 1..100 |-> 65]), 10), <<84, 73>>}
    [] loop = "flac" ->
         {FlacBlock(FALSE, 1, << >>),
          FlacBlock(FALSE, 4, VorbisBlock(<<KeyTitle \o <<61>> \o Foo>>)),
          FlacBlock(TRUE, 1, <<7, 7>>), <<1, 0, 16, 0>>, <<1, 0>>}
    [] loop = "ogg" ->
         {OggPageOf("id"), OggPageOf("titled"),
          OggS \o [i \in 1..23 |-> 0],
          OggS \o [i \in 1..22 |-> 0] \o <<9, 1>>, <<79, 103>>}
    [] loop = "vorbis" ->
         {U32LE(0), U32LE(9) \o KeyTitle \o <<61>> \o Foo, U32LE(1) \o <<61>>,
          U32LE(4096), <<1>>}
    [] loop = "findAtom" ->
         {U32(0), U32(7), Box(AtomFree, << >>),
          Box(AtomMoov, << >>), BoxSized(4096, AtomFree, << >>)}
    [] OTHER ->
         {U32(0), U32(7), Box(AtomFree, << >>), BoxSized(4096, AtomFree, << >>),
          Box(AtomNam, Box(AtomData, [i \in 1..8 |-> 0] \o Foo))}

Loops == {"id3v3", "id3v4", "flac", "ogg", "vorbis", "findAtom", "ilst"}

\* What stands before the first entry, and the number of comments the
\* Vorbis header declares.
WalkPrefix(loop, count) ==
  CASE loop = "flac" -> FlacMagic
    [] loop = "vorbis" -> U32LE(0) \o U32LE(count)
    [] OTHER -> << >>

WalkCallsOf(loop) ==
  {[loop |-> loop, count |-> count, start |-> Len(WalkPrefix(loop, count)),
    buf |-> WalkPrefix(loop, count) \o Concat(pieces)] :
     count \in {0, 2, 100}, pieces \in SeqsUpTo(WalkPieces(loop), MaxPieces)}

WalkCalls == UNION {WalkCallsOf(loop) : loop \in Loops}

\* Where a loop stands: its cursor, the cursor of the iteration before,
\* the iterations made, whether it has left, and the record so far.
WalkFrom(start) ==
  [pos |-> start, prev |-> start, steps |-> 0, exited |-> FALSE, tags |-> EmptyTags]

WalkInit ==
  /\ IdleScan
  /\ call \in WalkCalls
  /\ call.loop # "vorbis" => call.count = 0
  /\ ret = WalkFrom(call.start)

\* One iteration of the loop of c at the state r
LoopStep(c, r) ==
  CASE c.loop = "id3v3" -> ID3Step(c.buf, 3, r.pos, r.tags)
    [] c.loop = "id3v4" -> ID3Step(c.buf, 4, r.pos, r.tags)
    [] c.loop = "flac" -> FlacStep(c.buf, r.pos, r.tags)
    [] c.loop = "ogg" -> OggStep(c.buf, r.pos, r.steps, r.tags)
    [] c.loop = "vorbis" -> VorbisStep(c.buf, c.count, r.steps, r.pos, r.tags)
    [] c.loop = "findAtom" -> findAtomStep(c.buf, r.pos, Len(c.buf), AtomMoov)
    [] OTHER -> IlstStep(c.buf, r.pos, Len(c.buf), r.tags)

\* The loop runs its next iteration.
Iterate ==
  /\ ~ret.exited
  /\ \E s \in {LoopStep(call, ret)} :
       ret' = [pos |-> s.pos, prev |-> ret.pos, steps |-> ret.steps + 1,
               exited |-> s.exit, tags |-> s.tags]
  /\ UNCHANGED <<scanVars, call, uiVars>>

\* Iterate can be taken: ENABLED <<Iterate>>_vars, written out.
IterateReady == ~ret.exited

\* The loops run synchronously: an iteration that can run does run.  The
\* last conjunct is WF_vars(Iterate).
WalkSpec ==
  /\ WalkInit
  /\ [][Iterate]_vars
  /\ []<>(~IterateReady) \/ []<><<Iterate>>_vars

----------------------------------------------------------------------------
(* parseMetadata on files that carry a track number or a picture *)

\* What a file of the model may carry.
Carried == {"title", "track", "picture"}

\* A file of the given reader that carries just these fields: the title
\* Foo, the track number 7, a PNG picture.
CarryingContent(reader, has) ==
  LET t == "title" \in has
      n == "track" \in has
      p == "picture" \in has
      some(b, bytes) == IF b THEN bytes ELSE << >>
      list(b, item) == IF b THEN <<item>> ELSE << >>
  IN CASE reader = "id3" ->
            Id3File(3, 0,
              some(n, TextFrame(3, TRCK, <<55>>))
              \o some(p, Id3Frame(3, APIC, ApicPayload(0, "descEmpty", <<9, 9, 9>>)))
              \o some(t, TextFrame(3, TIT2, Foo)))
       [] reader = "flac" ->
            FlacMagic
            \o some(p, FlacBlock(FALSE, 6, PictureBlock(9, 0, 3)))
            \o FlacBlock(TRUE, 4,
                 VorbisBlock(list(n, KeyTrackNumber \o <<61, 55>>)
                             \o list(t, KeyTitle \o <<61>> \o Foo)))
       [] reader = "ogg" ->
            OggFile(list(n, KeyTrackNumber \o <<61, 55>>)
                    \o list(p, KeyPicture \o <<61>> \o Base64Encode(PictureBlock(9, 0, 3)))
                    \o list(t, KeyTitle \o <<61>> \o Foo))
       [] OTHER ->
            M4aFile(some(n, Box(AtomTrkn, DataBox(0, <<0, 0, 0, 7, 0, 12>>)))
                    \o some(p, Box(AtomCovr, DataBox(14, [i \in 1..17 |-> 9])))
                    \o some(t, Box(AtomNam, DataBox(1, Foo))),
                    0, 0)

CarryingExt(reader) ==
  CASE reader = "id3" -> ExtMp3 [] reader = "flac" -> ExtFlac
    [] reader = "ogg" -> ExtOgg [] OTHER -> ExtM4a

FallbackCalls ==
  {[fn |-> "parseMetadata", has |-> has, numbered |-> numbered,
    file |-> FileOf((IF numbered THEN Str(<<"0","3"," ","b">>) ELSE Str(<<"a">>))
                      \o CarryingExt(reader),
                    JoinPath(folders,
                      (IF numbered THEN Str(<<"0","3"," ","b">>) ELSE Str(<<"a">>))
                      \o CarryingExt(reader)),
                    CarryingContent(reader, has), 0)] :
     reader \in {"id3", "flac", "ogg", "m4a"}, has \in SUBSET Carried,
     numbered \in BOOLEAN,
     folders \in {<< >>, <<Str(<<"X">>), Str(<<"Y">>)>>}}

FallbackInit == IdleScan /\ call \in FallbackCalls /\ ret = NoRet

FallbackSpec == FallbackInit /\ [][ParseMetadata]_vars

----------------------------------------------------------------------------
(* parseID3 on tags with two APIC frames *)

\* The tag: a well-formed APIC frame with three bytes of image, a title
\* frame or nothing, then a second APIC frame of the given shape, or none.
TwoApicBody(major, encoding, first, between, second) ==
  Id3Frame(major, APIC, ApicPayload(encoding, first, <<9, 9, 9>>))
  \o (IF between THEN TextFrame(major, TIT2, Foo) ELSE << >>)
  \o (IF second = "none" THEN << >>
      ELSE Id3Frame(major, APIC,
             ApicPayload(encoding, second,
                         IF ApicEnded(second) THEN <<8, 8>> ELSE << >>)))

TwoApicCalls ==
  {[fn |-> "parseID3", encoding |-> encoding, first |-> first, second |-> second,
    file |-> FileOf(ExtMp3, << >>,
               Id3File(major, 0,
                       TwoApicBody(major, encoding, first, between, second)), 0)] :
     major \in {3, 4}, encoding \in 0..3, first \in {"descEmpty", "descEnded"},
     between \in BOOLEAN, second \in ApicShapes \cup {"none"}}

TwoApicInit == IdleScan /\ call \in TwoApicCalls /\ ret = NoRet

TwoApicSpec == TwoApicInit /\ [][ParseID3]_vars

----------------------------------------------------------------------------
(* Properties *)

\* A text that is there: neither null nor empty.
HasText(s) == s # Null /\ s # << >>

TextOrEmpty(s) == IF s = Null THEN << >> ELSE s

\* name[b+1..] is an extension: a dot and one or more word characters.
IsExtensionFrom(name, b) ==
  /\ b + 2 <= Len(name)
  /\ name[b + 1] = 46
  /\ \A j \in (b + 2)..Len(name) : IsWordChar(name[j])

\* The name without its extension ends at b.
StemEndsAt(name, b) ==
  \/ IsExtensionFrom(name, b)
  \/ b = Len(name) /\ \A c \in 0..Len(name) : ~IsExtensionFrom(name, c)

\* stem[1..a] is a track-number prefix: digits, then all the separators
\* (white space, dot, underscore, hyphen) that follow them, at least one.
IsTrackPrefixTo(stem, a) ==
  /\ a <= Len(stem)
  /\ \E nd \in 1..(a - 1) :
       /\ \A j \in 1..nd : IsDigit(stem[j])
       /\ \A j \in (nd + 1)..a : IsTrackSep(stem[j])
  /\ a = Len(stem) \/ ~IsTrackSep(stem[a + 1])

TitleStartsAfter(stem, a) ==
  \/ IsTrackPrefixTo(stem, a)
  \/ a = 0 /\ \A c \in 1..Len(stem) : ~IsTrackPrefixTo(stem, c)

\* t is the file name without its extension and its track-number prefix.
IsTitleOf(t, name) ==
  \E b \in 0..Len(name) :
    /\ StemEndsAt(name, b)
    /\ \E a \in 0..b :
         /\ TitleStartsAfter(SubSeq(name, 1, b), a)
         /\ t = SubSeq(name, a + 1, b)

\* t is the leading run of digits of the name, null when it has none.
IsTrackOf(t, name) ==
  IF name = << >> \/ ~IsDigit(name[1]) THEN t = Null
  ELSE \E nd \in 1..Len(name) :
         /\ \A j \in 1..nd : IsDigit(name[j])
         /\ nd = Len(name) \/ ~IsDigit(name[nd + 1])
         /\ t = SubSeq(name, 1, nd)

ExamplePath ==
  Str(<<"A","r","t","i","s","t","X","/","A","l","b","u","m","Y","/",
        "0","2"," ","-"," ","S","o","n","g",".","f","l","a","c">>)

\* C10: for a relative path of k segments the path fallback gives as title
\* the file name without its extension and without its leading track-number
\* prefix (no title when nothing is left), as track the leading run of
\* digits of the file name if there is one, as artist and album the third-
\* and second-from-last segments when k >= 3, as album the first segment
\* and no artist when k = 2, neither when k = 1; and the path
\* ArtistX/AlbumY/02 - Song.flac gives artist ArtistX, album AlbumY,
\* track 02, title Song.
C10_PathFallback ==
  (ret.done /\ call.fn = "tagsFromPath") =>
    LET parts == split(RelativePath(call.file), 47)
        k == Len(parts)
        tags == ret.tags
    IN /\ ~ret.raised
       /\ tags.title # << >>
       /\ IsTitleOf(TextOrEmpty(tags.title), parts[k])
       /\ IsTrackOf(tags.track, parts[k])
       /\ k >= 3 => tags.artist = parts[k - 2] /\ tags.album = parts[k - 1]
       /\ k = 2 => tags.artist = Null /\ tags.album = parts[1]
       /\ k = 1 => tags.artist = Null /\ tags.album = Null
       /\ call.file.path = ExamplePath =>
            /\ tags.artist = Str(<<"A","r","t","i","s","t","X">>)
            /\ tags.album = Str(<<"A","l","b","u","m","Y">>)
            /\ tags.track = Str(<<"0","2">>)
            /\ tags.title = Str(<<"S","o","n","g">>)

C10_Witness ==
  /\ ret.done
  /\ call.fn = "tagsFromPath"
  /\ call.file.path = ExamplePath
  /\ ret.tags.title = Str(<<"S","o","n","g">>)
  /\ ret.tags.track = Str(<<"0","2">>)

\* C9: the dispatcher returns the record of the reader unchanged whenever
\* that record has a title, an artist or an album, and returns the
\* path-derived record exactly when the reader, or the absence of a reader
\* for the extension, gives no title, no artist and no album.
C9_Dispatch ==
  (ret.done /\ call.fn = "parseMetadata" /\ ~ret.raised) =>
    IF HasText(ret.read.title) \/ HasText(ret.read.artist) \/ HasText(ret.read.album)
    THEN ret.tags = ret.read
    ELSE ret.tags = tagsFromPath(call.file)

\* A reader found an artist but no title, and its record came back as it was.
C9_Witness ==
  /\ ret.done
  /\ call.fn = "parseMetadata"
  /\ ~HasText(ret.read.title)
  /\ HasText(ret.read.artist)
  /\ ret.tags = ret.read
  /\ ret.tags # tagsFromPath(call.file)

\* C6: for every content of a file that can be read, the ID3v2 reader
\* returns a record, partial or empty, and never raises, also when the
\* header sets the extended-header flag (0x40) or declares a tag larger
\* than the bytes the file has.
C6_Id3NeverRaises ==
  (ret.done /\ call.fn = "parseID3" /\ call.file.failAt = 0) => ~ret.raised

\* C7: for every content the MP4 reader never reads outside the buffer it
\* fetched (such a read raises RangeError) and never raises; an atom whose
\* declared size overflows the bound of its parent ends the traversal of
\* that branch, so that nothing after it is taken; and an ilst whose
\* declared size runs past the buffer gives the empty record.
C7_Mp4Safe ==
  (ret.done /\ call.fn = "parseM4A") =>
    /\ ~ret.raised
    /\ call.file.bytes \in IlstPastBuffer => ret.tags = EmptyTags
    /\ call.file.bytes \in OverflowingAtom => ret.tags = EmptyTags

\* The reader has returned from a file whose ilst declares 1000 bytes more
\* than the file has.
C7_Witness ==
  /\ ret.done
  /\ call.fn = "parseM4A"
  /\ call.file.failAt = 0
  /\ call.file.bytes = M4aFile(ValidItems, 0, 1000)
  /\ ~ret.raised
  /\ ret.tags = EmptyTags

----------------------------------------------------------------------------
(* Properties of a scan *)

FileAt(i) == ScanFiles[audioFiles[i]]

\* The dispatches that have finished: their result is stored, or waits in
\* the worker that awaited it.
Finished ==
  Cardinality({i \in 1..Len(results) : results[i].state # "empty"})
  + Cardinality({w \in 1..Len(workers) : workers[w].st = "settled"})

PoolDone ==
  \/ pc = "returned"
  \/ pc = "scanning" /\ \A w \in 1..Len(workers) : workers[w].st = "done"

\* The tracks of the catalog with the path of file i, each with its album.
TracksOf(i) ==
  {<<a, t>> \in (1..Len(catalog.albums)) \X (1..MaxFiles + 1) :
     /\ t <= Len(catalog.albums[a].tracks)
     /\ catalog.albums[a].tracks[t].path = RelativePath(FileAt(i))}

\* What reading the tags of file i gives, raised or returned.
TagsRead(i) == TagsOfFile[version][audioFiles[i]]

\* C1: for any list of n files and any limit, when the pool of mapWithLimit
\* is done, slot i of the result array holds the outcome of dispatching
\* file i, for every i, whatever order the dispatches finished in; until
\* then a slot is empty or holds that outcome.
C1_SlotOrder ==
  /\ \A i \in 1..Len(results) :
       results[i] \in {EmptySlot, fn(version, audioFiles[i], i - 1)}
  /\ PoolDone =>
       /\ Len(results) = Len(audioFiles)
       /\ \A i \in 1..Len(results) : results[i] = fn(version, audioFiles[i], i - 1)

\* Three files went through a pool of two workers, and of the three slots
\* the second holds a failure and the third a record.
C1_Witness ==
  /\ pc = "returned"
  /\ limit = 2
  /\ Len(audioFiles) = 3
  /\ results[1].state = "value"
  /\ results[2].state = "null"
  /\ results[3].state = "value"
  /\ results[3].file = 3

\* C2: a failure raised while one file is dispatched is caught for that
\* file only: it never reaches the caller of the scan, every other file is
\* still dispatched, and the scan returns a catalog, in which every file
\* that did not fail is a track.
C2_FailureContained ==
  /\ pc # "rejected"
  /\ \A w \in 1..Len(workers) : workers[w].st # "rejected"
  /\ (pc = "returned" /\ audioFiles # << >>) =>
       /\ catalog.kind = "value"
       /\ \A i \in 1..Len(audioFiles) :
            /\ results[i].state # "empty"
            /\ TagsRead(i).raised => results[i].state = "null"
            /\ ~TagsRead(i).raised => TracksOf(i) # {}

\* A scan has returned a catalog with the second of its files in it, the
\* first having failed.
C2_Witness ==
  /\ pc = "returned"
  /\ Len(audioFiles) >= 2
  /\ TagsRead(1).raised
  /\ results[1].state = "null"
  /\ catalog.kind = "value"
  /\ TracksOf(2) # {}

\* C3: in a scan of n files that reports progress (the first processFiles)
\* the callback is called once after each dispatch finishes, failed or
\* not, after a first call with (0, n); the counts go up by one from call
\* to call, and the last call reports (n, n).
C3_Progress ==
  (version = 1 /\ pc # "idle" /\ audioFiles # << >>) =>
    /\ Len(progress) = Finished + 1
    /\ \A k \in 1..Len(progress) : progress[k] = <<k - 1, Len(audioFiles)>>
    /\ PoolDone => progress[Len(progress)] = <<Len(audioFiles), Len(audioFiles)>>

\* The last report of a scan of three files, one of which failed.
C3_Witness ==
  /\ version = 1
  /\ pc = "returned"
  /\ Len(audioFiles) = 3
  /\ \E i \in 1..3 : results[i].state = "null"
  /\ progress[4] = <<3, 3>>

\* C4: at every moment of a scan with limit N at most N files have a
\* dispatch in flight (started and not finished), and exactly min(N, n)
\* workers are started for n files.
C4_Bounded ==
  (pc # "idle" /\ audioFiles # << >>) =>
    /\ index - Finished <= limit
    /\ index - Finished
         = Cardinality({w \in 1..Len(workers) : workers[w].st = "awaiting"})
    /\ Len(workers) = (IF limit <= Len(audioFiles) THEN limit ELSE Len(audioFiles))

\* Two of three files are in flight under a limit of two.
C4_Witness ==
  /\ pc = "scanning"
  /\ limit = 2
  /\ Len(audioFiles) = 3
  /\ Len(workers) = 2
  /\ index - Finished = 2
  /\ index = 3

\* The first read of a file is rejected, and the file has a reader.
Unreadable(f) == f.failAt = 1 /\ ReaderFor(f.name) # "none"

\* File i is a track with the metadata its path gives.
HasPathMetadata(i) ==
  LET derived == tagsFromPath(FileAt(i))
  IN \E at \in TracksOf(i) :
       /\ catalog.albums[at[1]].tracks[at[2]].title
            = (IF HasText(derived.title) THEN derived.title
               ELSE cleanFilename(FileAt(i).name))
       /\ catalog.albums[at[1]].title
            = (IF HasText(derived.album) THEN derived.album ELSE UnknownAlbum)
       /\ catalog.albums[at[1]].artist
            = (IF HasText(derived.artist) THEN derived.artist ELSE UnknownArtist)

\* C5 as it stands: a file whose byte source fails to produce bytes is
\* skipped by the scan, dispatched but no track of the catalog, whereas a
\* file that was read and gave no usable tag is a track with path-derived
\* metadata.
C5_UnreadableSkipped ==
  (version = 2 /\ pc = "returned") =>
    \A i \in 1..Len(audioFiles) :
      /\ Unreadable(FileAt(i)) => results[i].state # "empty" /\ TracksOf(i) = {}
      /\ (FileAt(i).failAt = 0 /\ ~TagsRead(i).raised
            /\ NothingUseful(ReadWith(ReaderFor(FileAt(i).name), FileAt(i)).tags))
           => HasPathMetadata(i)

\* C5, amended: a file whose first read is rejected is not skipped: it is
\* a track with path-derived metadata, like a file that was read and gave
\* no usable tag.  A file is skipped, that is dispatched (and counted in
\* progress where progress is reported) but no track of the catalog,
\* exactly when its dispatch raises, as it does when a read after the
\* first is rejected.
C5_SkippedWhenRaised ==
  pc = "returned" =>
    /\ version = 1 /\ audioFiles # << >> => Len(progress) = Len(audioFiles) + 1
    /\ \A i \in 1..Len(audioFiles) :
         /\ results[i].state # "empty"
         /\ TracksOf(i) = {} <=> TagsRead(i).raised
         /\ (version = 2 /\ Unreadable(FileAt(i))) => HasPathMetadata(i)
         /\ (version = 2 /\ FileAt(i).failAt = 0 /\ ~TagsRead(i).raised
               /\ NothingUseful(ReadWith(ReaderFor(FileAt(i).name), FileAt(i)).tags))
              => HasPathMetadata(i)
         /\ (version = 2 /\ FileAt(i).failAt = 2 /\ ReaderFor(FileAt(i).name) = "id3")
              => TracksOf(i) = {}

\* A scan has returned with a file whose first read was rejected among its
\* tracks, and a file whose later read was rejected absent.
C5_Witness ==
  /\ version = 2
  /\ pc = "returned"
  /\ \E i \in 1..Len(audioFiles) : Unreadable(FileAt(i)) /\ HasPathMetadata(i)
  /\ \E i \in 1..Len(audioFiles) : FileAt(i).failAt = 2 /\ TracksOf(i) = {}

\* C8: every scan runs to its end: when every read settles and every ready
\* continuation runs, every one of the n files is dispatched and the scan
\* returns its catalog; nothing stops the workers early.
C8_Completes ==
  <>(/\ pc = "returned"
     /\ catalog.kind # "none"
     /\ Len(results) = Len(audioFiles)
     /\ \A i \in 1..Len(results) : results[i].state # "empty")

\* A scan of as many files as the model has has returned.
C8_Witness ==
  /\ pc = "returned"
  /\ Len(audioFiles) = MaxFiles
  /\ catalog.kind = "value"
  /\ \A i \in 1..Len(results) : results[i].state # "empty"

----------------------------------------------------------------------------
(* Properties of the grouping step *)

\* The grouping step has run at least once on the records of the call.
Grouped == call.fn = "group" /\ ret.runs >= 1

RecordPath(r) == RelativePath(r.fileRecord)

RECURSIVE TrackTotal(_)
TrackTotal(albums) ==
  IF albums = << >> THEN 0
  ELSE Len(Head(albums).tracks) + TrackTotal(Tail(albums))

\* The places <<album, track>> of catalog cat that hold a track of path p.
TracksWithPath(cat, p) ==
  {<<a, t>> \in (1..Len(cat.albums)) \X (1..Len(call.parsed)) :
     /\ t <= Len(cat.albums[a].tracks)
     /\ cat.albums[a].tracks[t].path = p}

RecordsWithPath(p) == {j \in 1..Len(call.parsed) : RecordPath(call.parsed[j]) = p}

\* C11: grouping puts every record as exactly one track into exactly one
\* album: the tracks of the catalog are as many as the records, every path
\* has as many tracks as records, all in one album, no album is without
\* tracks, a record whose album is missing is in an album titled
\* 'Unknown Album', and one whose artist is missing in an album whose
\* artist is 'Unknown Artist'.
C11_OneTrackPerRecord ==
  Grouped =>
    /\ TrackTotal(ret.first.albums) = Len(call.parsed)
    /\ \A a \in 1..Len(ret.first.albums) : Len(ret.first.albums[a].tracks) >= 1
    /\ \A i \in 1..Len(call.parsed) :
         LET r == call.parsed[i]
             places == TracksWithPath(ret.first, RecordPath(r))
         IN /\ Cardinality(places) = Cardinality(RecordsWithPath(RecordPath(r)))
            /\ \A x \in places, y \in places : x[1] = y[1]
            /\ \A x \in places :
                 /\ ~HasText(r.tags.album) =>
                      ret.first.albums[x[1]].title = UnknownAlbum
                 /\ ~HasText(r.tags.artist) =>
                      ret.first.albums[x[1]].artist = UnknownArtist

\* Three records went into two albums, one of them 'Unknown Album'.
C11_Witness ==
  /\ Grouped
  /\ Len(call.parsed) = 3
  /\ Len(ret.first.albums) = 2
  /\ \E a \in 1..2 : /\ ret.first.albums[a].title = UnknownAlbum
                     /\ ret.first.albums[a].artist = Art
  /\ \E a \in 1..2 : Len(ret.first.albums[a].tracks) = 2

\* The number a track text stands for: its leading digits, 9999 when it
\* has none.
TrackNumberOf(track) ==
  IF ~HasText(track) \/ ~IsDigit(track[1]) THEN TrackSentinel
  ELSE DigitsValue(track, 0)

RecordOfPath(p) == CHOOSE r \in GroupRecords : RecordPath(r) = p

\* The track number of track t of album a of the first catalog.
NumberAt(a, t) ==
  TrackNumberOf(RecordOfPath(ret.first.albums[a].tracks[t].path).tags.track)

IsTagged(a, t) ==
  LET track == RecordOfPath(ret.first.albums[a].tracks[t].path).tags.track
  IN HasText(track) /\ IsDigit(track[1])

\* The tracks of album a ascend by track number, then by title.
Ascending(a) ==
  LET tracks == ret.first.albums[a].tracks
  IN \A t \in 1..Len(tracks), u \in 1..Len(tracks) :
       t < u =>
         \/ NumberAt(a, t) < NumberAt(a, u)
         \/ /\ NumberAt(a, t) = NumberAt(a, u)
            /\ localeCompare(tracks[t].title, tracks[u].title) <= 0

\* C12 as the specification states it: in every album the tracks ascend
\* by track number, then by title, a track without a parseable number
\* counting as 9999, and every untagged track comes after every tagged
\* track of the album.
C12_UntaggedLast ==
  Grouped =>
    \A a \in 1..Len(ret.first.albums) :
      /\ Ascending(a)
      /\ \A t \in 1..Len(ret.first.albums[a].tracks),
            u \in 1..Len(ret.first.albums[a].tracks) :
           (IsTagged(a, t) /\ ~IsTagged(a, u)) => t < u

\* C12: in every album the tracks ascend by track number, then by title,
\* a track without a parseable number counting as 9999, so that every
\* untagged track comes after every track tagged with a number below 9999.
C12_Sorted ==
  Grouped =>
    \A a \in 1..Len(ret.first.albums) :
      /\ Ascending(a)
      /\ \A t \in 1..Len(ret.first.albums[a].tracks),
            u \in 1..Len(ret.first.albums[a].tracks) :
           (IsTagged(a, t) /\ NumberAt(a, t) < TrackSentinel /\ ~IsTagged(a, u))
             => t < u

\* An untagged record, then two records that tie on track 1, came out as
\* the tie in title order and the untagged track last.
C12_Witness ==
  /\ Grouped
  /\ Len(call.parsed) = 3
  /\ ~HasText(call.parsed[1].tags.track)
  /\ Len(ret.first.albums) = 1
  /\ [t \in 1..3 |-> ret.first.albums[1].tracks[t].title]
       = <<Str(<<"t","w","o">>), Str(<<"T","w","o">>), Str(<<"S","e","v","e","n">>)>>

AlbumTitleOf(r) == IF HasText(r.tags.album) THEN r.tags.album ELSE UnknownAlbum
ArtistOf(r) == IF HasText(r.tags.artist) THEN r.tags.artist ELSE UnknownArtist

\* The records of the call that belong to album a of the first catalog.
RecordsOf(a) ==
  {i \in 1..Len(call.parsed) :
     /\ AlbumTitleOf(call.parsed[i]) = ret.first.albums[a].title
     /\ ArtistOf(call.parsed[i]) = ret.first.albums[a].artist}

WithPicture(a) == {i \in RecordsOf(a) : call.parsed[i].tags.picture.present}

\* C13: every album has one cover; when none of its records has a picture
\* it is the placeholder, and otherwise it is an object URL for the picture
\* of the first record of the album, in input order, that has one, whatever
\* pictures later records have.
C13_FirstPicture ==
  Grouped =>
    \A a \in 1..Len(ret.first.albums) :
      IF WithPicture(a) = {}
      THEN ret.first.albums[a].cover = 0
      ELSE /\ ret.first.albums[a].cover \in 1..Len(ret.blobs)
           /\ ret.blobs[ret.first.albums[a].cover]
                = call.parsed[CHOOSE i \in WithPicture(a) :
                                \A j \in WithPicture(a) : i <= j].tags.picture

\* An album whose first record has no picture, and whose second and third
\* have different ones, shows the picture of the second.
C13_Witness ==
  /\ Grouped
  /\ Len(call.parsed) = 3
  /\ Len(ret.first.albums) = 1
  /\ ~call.parsed[1].tags.picture.present
  /\ call.parsed[2].tags.picture = Pic(2)
  /\ call.parsed[3].tags.picture = Pic(1)
  /\ ret.blobs[ret.first.albums[1].cover] = Pic(2)

\* C14: the grouping step run twice on the same ordered list of records
\* gives identical catalogs: the same albums in the same order, the same
\* tracks in the same order in each, and the same cover reference for each
\* album.
C14_Idempotent ==
  (call.fn = "group" /\ ret.runs = 2) => ret.first = ret.second

----------------------------------------------------------------------------
(* Properties of the Vorbis comment readers *)

IsAscii(s) == \A i \in 1..Len(s) : s[i] < 128

\* The comment reads key=value, the key in any letter case.
HasKey(comment, key) ==
  /\ Len(comment) > Len(key)
  /\ comment[Len(key) + 1] = 61
  /\ toUpperCase(TakeFirst(comment, Len(key))) = key

\* What the comments give for a key: the value of the last comment with
\* that key, null when there is none.
LastValue(comments, key) ==
  LET hits == {i \in 1..Len(comments) : HasKey(comments[i], key)}
  IN IF hits = {} THEN Null
     ELSE DropFirst(comments[CHOOSE i \in hits : \A j \in hits : j <= i],
                    Len(key) + 1)

TextFields(tags) == <<tags.title, tags.artist, tags.album, tags.track>>

\* C15: for every valid Vorbis comment block, the Ogg reader on a stream
\* whose second page body contains \x03vorbis followed by the block and the
\* FLAC reader on the magic plus one type-4 block holding it give the same
\* title, artist, album and track; for comments of ASCII text these are
\* the values of the comments whose key is TITLE, ARTIST, ALBUM and
\* TRACKNUMBER in any letter case, so that TITLE=Foo with ARTIST=Bar gives
\* title Foo and artist Bar from both.
C15_OggAsFlac ==
  (call.fn = "vorbis" /\ ret.flac.done /\ ret.ogg.done) =>
    /\ ~ret.flac.raised /\ ~ret.ogg.raised
    /\ TextFields(ret.ogg.tags) = TextFields(ret.flac.tags)
    /\ (\A i \in 1..Len(call.comments) : IsAscii(call.comments[i])) =>
         TextFields(ret.flac.tags)
           = <<LastValue(call.comments, KeyTitle),
               LastValue(call.comments, KeyArtist),
               LastValue(call.comments, KeyAlbum),
               LastValue(call.comments, KeyTrackNumber)>>
    /\ call.comments = <<Str(<<"T","I","T","L","E","=">>) \o Foo,
                         Str(<<"A","R","T","I","S","T","=">>) \o Bar>> =>
         /\ ret.ogg.tags.title = Foo /\ ret.ogg.tags.artist = Bar
         /\ ret.flac.tags.title = Foo /\ ret.flac.tags.artist = Bar

\* Both readers gave title Foo and artist Bar for TITLE=Foo, ARTIST=Bar.
C15_Witness ==
  /\ call.fn = "vorbis"
  /\ ret.flac.done /\ ret.ogg.done
  /\ call.comments = <<Str(<<"T","I","T","L","E","=">>) \o Foo,
                       Str(<<"A","R","T","I","S","T","=">>) \o Bar>>
  /\ ret.ogg.tags.title = Foo /\ ret.ogg.tags.artist = Bar
  /\ ret.flac.tags.title = Foo /\ ret.flac.tags.artist = Bar

----------------------------------------------------------------------------
(* Properties of the readers on files without their signature *)

\* The file of the call lacks the signature its reader expects.
SignatureAbsent ==
  LET bytes == call.file.bytes
  IN \/ /\ call.fn = "parseID3"
        /\ \/ TakeFirst(bytes, 3) # Str(<<"I","D","3">>)
           \/ Len(bytes) >= 4 /\ bytes[4] \notin {3, 4}
     \/ call.fn = "parseFLAC" /\ TakeFirst(bytes, 4) # Str(<<"f","L","a","C">>)
     \/ call.fn = "parseOGG" /\ TakeFirst(bytes, 4) # Str(<<"O","g","g","S">>)

\* C16: a reader whose expected signature is absent returns the empty
\* record and does not raise: the ID3v2 reader when the first 3 bytes are
\* not 'ID3' or the major version byte is not 3 or 4, the FLAC reader when
\* the first 4 bytes are not 'fLaC', the Ogg reader when the first page
\* does not begin with 'OggS'.
C16_NoSignature ==
  (ret.done /\ call.fn \in {"parseID3", "parseFLAC", "parseOGG"}
     /\ SignatureAbsent) =>
    ~ret.raised /\ ret.tags = EmptyTags

\* The ID3 reader returned the empty record for a readable tag of version
\* 2 that announces an extended header.
C16_Witness ==
  /\ ret.done
  /\ call.fn = "parseID3"
  /\ call.file.failAt = 0
  /\ call.file.bytes = [ExtendedMp3Bytes EXCEPT ![4] = 2]
  /\ ~ret.raised
  /\ ret.tags = EmptyTags

----------------------------------------------------------------------------
(* Properties of the MP4 reader on nested boxes *)

\* The text the UTF-8 bytes of NestTexts stand for.
TextOf(bytes) == IF bytes = <<195, 169>> THEN <<233>> ELSE bytes

\* C17: an MP4 buffer with the boxes moov > udta > meta > ilst > (c)nam,
\* meta's payload starting with the 4-byte version/flags field, gives the
\* text of the data box as title, 'Track One' for the bytes of
\* 'Track One'; and it gives the empty record when meta lacks the field
\* (the search for ilst starts 4 bytes into the payload), when ilst is not
\* inside meta, meta not inside udta, or udta not inside moov.
C17_Nested ==
  (ret.done /\ call.fn = "parseM4A") =>
    /\ ~ret.raised
    /\ ret.tags = IF call.place = "nested" /\ call.hasVersion
                  THEN [EmptyTags EXCEPT !.title = TextOf(call.text)]
                  ELSE EmptyTags

\* The reader gave title 'Track One' for the boxes in place.
C17_Witness ==
  /\ ret.done
  /\ call.fn = "parseM4A"
  /\ call.place = "nested"
  /\ call.hasVersion
  /\ call.text = TrackOne
  /\ ret.tags.title = TrackOne

----------------------------------------------------------------------------
(* Properties of the FLAC reader on picture blocks *)

\* The big-endian number in the four bytes of b from offset at.
Word(b, at) == ((b[at + 1] * 256 + b[at + 2]) * 256 + b[at + 3]) * 256 + b[at + 4]

\* The lengths the block declares keep its layout inside it: the MIME type
\* and the description length after it, the description, the 16 bytes of
\* dimensions and the data length, and the data.
LengthsFit(b) ==
  /\ 8 + Word(b, 4) + 4 <= Len(b)
  /\ 8 + Word(b, 4) + 4 + Word(b, 8 + Word(b, 4)) + 20 <= Len(b)
  /\ 8 + Word(b, 4) + 4 + Word(b, 8 + Word(b, 4)) + 20
       + Word(b, 8 + Word(b, 4) + 4 + Word(b, 8 + Word(b, 4)) + 16) <= Len(b)

\* C18: a FLAC picture block in which a declared mimeLength,
\* descriptionLength or dataLength points outside the block is abandoned:
\* the FLAC reader does not raise, leaves the picture unset, and returns
\* the title of the Vorbis comment block of the same file.
C18_PictureAbandoned ==
  (ret.done /\ call.fn = "parseFLAC" /\ ~LengthsFit(call.block)) =>
    /\ ~ret.raised
    /\ ~ret.tags.picture.present
    /\ ret.tags.title = Foo

----------------------------------------------------------------------------
(* Properties of the MP4 reader on sizes below 8 *)

\* The record with both items, and with one of them.
BothItems(text) == [EmptyTags EXCEPT !.title = text, !.artist = Bar]
TitleOnly(text) == [EmptyTags EXCEPT !.title = text]
ArtistOnly == [EmptyTags EXCEPT !.artist = Bar]

\* The record when nothing after the short box is found at its level.
WalkAborted(level, text) ==
  CASE level = "ilstMid" -> TitleOnly(text)
    [] level = "item" -> ArtistOnly
    [] OTHER -> EmptyTags

\* The shapes made of words below 8 only: the box searched for starts at
\* a multiple of 4 bytes after the first of them.
WordsOnly == {"word0", "word4", "zeros8"}

----------------------------------------------------------------------------
(* Properties of the ID3 reader on terminated text frames *)

\* C20: for every text-encoding selector 0, 1, 2 and 3, a text frame that
\* holds a null terminator (one zero byte for the 8-bit encodings, two for
\* the 16-bit ones) is decoded up to it: the title is the text before the
\* terminator, with no null character and nothing of the bytes after it.
C20_EndsAtTerminator ==
  (ret.done /\ call.fn = "parseID3" /\ call.terminated) =>
    /\ ~ret.raised
    /\ ret.tags.title = call.text

----------------------------------------------------------------------------
(* Properties of the ID3 frame loop *)

\* The record when the loop went through the whole body, and when it
\* ended at the middle.
WholeBody == [EmptyTags EXCEPT !.title = call.first, !.artist = call.last]
UpToMiddle == [EmptyTags EXCEPT !.title = call.first]

\* C21 as stated: a frame other than TIT2, TPE1, TALB, TRCK, APIC is
\* skipped by its declared size and the frames after it are decoded; the
\* loop ends only at padding, at a frame whose declared size exceeds the
\* remaining buffer, or at the end of the body.
C21_EndsOnlyThere ==
  (ret.done /\ call.fn = "parseID3") =>
    /\ ~ret.raised
    /\ ret.tags = IF call.middle \in {"padding", "oversize"}
                  THEN UpToMiddle ELSE WholeBody

\* C21: a frame other than TIT2, TPE1, TALB, TRCK, APIC with a payload is
\* skipped by its declared size and the frames after it are decoded; the
\* loop ends at padding, at a frame whose declared size is 0 (wanted or
\* not), at a frame whose declared size exceeds the remaining buffer, or at
\* the end of the body, and nowhere else.
C21_FrameLoop ==
  (ret.done /\ call.fn = "parseID3") =>
    /\ ~ret.raised
    /\ ret.tags = IF call.middle \in {"padding", "oversize", "unknownEmpty",
                                      "wantedEmpty"}
                  THEN UpToMiddle ELSE WholeBody

\* The loop went past a TXXX frame and decoded the artist after it.
C21_Witness ==
  /\ ret.done
  /\ call.fn = "parseID3"
  /\ call.middle = "unknown"
  /\ call.first = Foo
  /\ ret.tags.title = Foo
  /\ ret.tags.artist = call.last

----------------------------------------------------------------------------
(* Properties of the ID3 reader on unknown text-encoding selectors *)

\* The field a frame identifier stands for.
FieldOf(id) ==
  IF id = TIT2 THEN "title" ELSE IF id = TALB THEN "album" ELSE "track"

\* The record of the two frames around the one with the selector.
OtherFields(id) ==
  [EmptyTags EXCEPT !.artist = Bar,
                    ![IF id = TALB THEN "title" ELSE "album"] = Bar]

\* The bytes before the first zero byte, one character each.
RECURSIVE UpToNull(_)
UpToNull(text) ==
  IF text = << >> \/ Head(text) = 0 THEN << >>
  ELSE <<Head(text)>> \o UpToNull(Tail(text))

\* C22 as stated: a text frame whose selector is not 0, 1, 2 or 3 leaves
\* its field absent, and the other fields are decoded as usual.
C22_FieldAbsent ==
  (ret.done /\ call.fn = "parseID3" /\ call.selector \notin 0..3) =>
    /\ ~ret.raised
    /\ ret.tags = OtherFields(call.id)

\* C22: a text frame whose selector is not 0, 1, 2 or 3 is decoded as
\* ISO-8859-1, one character per byte up to the first zero byte, and its
\* field holds that text; the other fields are decoded as usual.
C22_DecodedAsLatin1 ==
  (ret.done /\ call.fn = "parseID3" /\ call.selector \notin 0..3) =>
    /\ ~ret.raised
    /\ ret.tags = [OtherFields(call.id) EXCEPT
                     ![FieldOf(call.id)] = UpToNull(call.text)]

\* A title frame with selector 4 and the bytes F, 0xE9 gave the title of
\* those two characters.
C22_Witness ==
  /\ ret.done
  /\ call.fn = "parseID3"
  /\ call.selector = 4
  /\ call.id = TIT2
  /\ call.text = <<70, 233>>
  /\ ret.tags.title = <<70, 233>>
  /\ ret.tags.artist = Bar

----------------------------------------------------------------------------
(* Properties of the Vorbis comment decoder on picture comments *)

\* The comment holds the base64 of a picture block whose lengths fit.
WellFormedPicture == Len(call.block) >= 32 /\ LengthsFit(call.block)

\* The four text fields of PictureComments.
FourFields ==
  [EmptyTags EXCEPT !.title = Foo, !.artist = Bar, !.album = Foo,
                    !.track = <<55>>]

\* C23: a METADATA_BLOCK_PICTURE comment with malformed base64 or a
\* malformed embedded picture leaves the picture unset and does not abort
\* comment parsing: the reader does not raise, and the TITLE, ARTIST,
\* ALBUM and TRACKNUMBER comments of the same block are decoded.
C23_PictureSwallowed ==
  (ret.done /\ call.fn \in {"parseFLAC", "parseOGG"} /\ ~WellFormedPicture) =>
    /\ ~ret.raised
    /\ ret.tags = FourFields

\* The embedded picture made the picture decoder throw (its MIME type ends
\* in the last bytes of the block), and the four fields were decoded.
C23_Witness ==
  /\ ret.done
  /\ call.fn = "parseOGG"
  /\ call.block = PictureBlock(33, 0, 3)
  /\ ~ret.raised
  /\ ret.tags = FourFields

----------------------------------------------------------------------------
(* Properties of the ID3 reader on APIC frames *)

\* The MIME type or the description has no terminator in the frame, or no
\* image bytes come after them.
ApicMalformed == ~ApicEnded(call.shape) \/ call.image = << >>

\* C24: a malformed APIC frame (MIME type or description not terminated
\* inside the frame, or no image bytes left after them) yields no picture,
\* does not fail and does not truncate the record: the text frames before
\* and after it are returned.
C24_NoPicture ==
  (ret.done /\ call.fn = "parseID3" /\ ApicMalformed) =>
    /\ ~ret.raised
    /\ ret.tags = [EmptyTags EXCEPT !.title = Foo, !.artist = Bar]

----------------------------------------------------------------------------
(* Properties of the Ogg page loop *)

\* The page indexes handed to the comment decoder.
Decoded == {ret.decoded[k] : k \in 1..Len(ret.decoded)}

\* C25: the Ogg reader never hands the body of page index 0 to the comment
\* decoder, examines at most 10 pages, and examines no further page once a
\* comment header has given a non-empty title or artist: no page after
\* that header is decoded, and the pages examined end with it.
C25_PageLoop ==
  (ret.done /\ call.fn = "parseOGG") =>
    /\ 0 \notin Decoded
    /\ ret.pages <= OggPageBudget
    /\ \A k \in Decoded : k <= call.hit
    /\ call.hit \in Decoded => ret.pages = call.hit + 1
    /\ ret.tags.title # Bar

\* Pages 1 and 2 went to the decoder, page 2 gave the title, and the
\* pages after it were left alone.
C25_Witness ==
  /\ ret.done
  /\ call.fn = "parseOGG"
  /\ call.first = "titled"
  /\ call.n = MaxPages
  /\ call.hit = 2
  /\ call.filler = "album"
  /\ ret.decoded = <<1, 2>>
  /\ ret.pages = 3
  /\ ret.tags.title = Foo

----------------------------------------------------------------------------
(* Properties of decodeSyncsafe *)

\* C26: for all bytes b0..b3 syncsafe decoding gives
\* (b0 mod 128)*2^21 + (b1 mod 128)*2^14 + (b2 mod 128)*2^7 + (b3 mod 128):
\* the bytes 00 00 02 01 give 257, the high bit of a byte does not change
\* the result, and the result is not negative.
C26_Syncsafe ==
  (ret.done /\ call.fn = "decodeSyncsafe") =>
    /\ ret.value = (call.bytes[1] % 128) * 2097152
                   + (call.bytes[2] % 128) * 16384
                   + (call.bytes[3] % 128) * 128
                   + (call.bytes[4] % 128)
    /\ (call.bytes = <<0, 0, 2, 1>> => ret.value = 257)
    /\ ret.value = ret.cleared
    /\ ret.value >= 0
    /\ ret.value < 268435456

\* The bytes 80 00 82 01, high bits set, gave 257.
C26_Witness ==
  /\ ret.done
  /\ call.fn = "decodeSyncsafe"
  /\ call.bytes = <<128, 0, 130, 1>>
  /\ ret.value = 257

----------------------------------------------------------------------------
(* Properties of the shared cursor of mapWithLimit *)

\* The workers that hold an index: they await its dispatch, or have its
\* result and have not stored it yet.
Holders(i) ==
  {w \in 1..Len(workers) :
     workers[w].st \in {"awaiting", "settled"} /\ workers[w].i = i}

\* Every index below the cursor has been claimed once: one worker holds
\* it, or its result is stored and no worker holds it; no index from the
\* cursor on has been claimed; and the pool ends with the cursor at n.
ClaimedOnce ==
  (pc # "idle" /\ audioFiles # << >>) =>
    /\ index <= Len(audioFiles)
    /\ \A i \in 0..(Len(audioFiles) - 1) :
         IF i < index
         THEN \/ Cardinality(Holders(i)) = 1 /\ results[i + 1] = EmptySlot
              \/ Holders(i) = {} /\ results[i + 1] # EmptySlot
         ELSE Holders(i) = {} /\ results[i + 1] = EmptySlot
    /\ PoolDone => index = Len(audioFiles)

\* A step that moves the cursor moves it forward, and every index it
\* passes goes to exactly one worker, which starts its dispatch.
ClaimStep ==
  index' # index =>
    /\ index' > index
    /\ \A i \in index..(index' - 1) :
         Cardinality({w \in 1..Len(workers') :
                        /\ workers'[w].st = "awaiting"
                        /\ workers'[w].i = i
                        /\ (w \in DOMAIN workers => workers[w] # workers'[w])}) = 1

\* C27: under every interleaving of the workers each file index in 0..n-1
\* is claimed by exactly one worker, exactly once: none is dispatched
\* twice and none is skipped, the test of the shared cursor and its
\* increment being one step.
C27_ClaimedOnce == []ClaimedOnce /\ [][ClaimStep]_vars

\* Three files, two workers: index 0 is stored, indexes 1 and 2 are each
\* held by one worker, and the cursor is at 3.
C27_Witness ==
  /\ pc = "scanning"
  /\ limit = 2
  /\ Len(audioFiles) = 3
  /\ index = 3
  /\ results[1] # EmptySlot
  /\ Cardinality(Holders(1)) = 1
  /\ Cardinality(Holders(2)) = 1
  /\ Holders(1) # Holders(2)

----------------------------------------------------------------------------
(* Properties of the album key *)

\* The album of the first catalog that holds the track of record i.
AlbumOfRecord(i) ==
  {x[1] : x \in TracksWithPath(ret.first, RecordPath(call.parsed[i]))}

\* C28: two records are in the same album only if their album names, after
\* defaulting, are equal and their artist names, after defaulting, are
\* equal: the key that joins album and artist with '|||' never stands for
\* two different pairs.
C28_SameAlbumSamePair ==
  Grouped =>
    \A i \in 1..Len(call.parsed), j \in 1..Len(call.parsed) :
      AlbumOfRecord(i) = AlbumOfRecord(j) =>
        /\ AlbumTitleOf(call.parsed[i]) = AlbumTitleOf(call.parsed[j])
        /\ ArtistOf(call.parsed[i]) = ArtistOf(call.parsed[j])


\* C29: the album opened in the detail view is the album of the card the
\* user clicked; a delayed expand(i) never meets a list that
\* populateCarousel replaced since the click.
C29_OpensClicked ==
  app.opened # NoOpened => app.opened.album = app.opened.clicked


\* C30: whenever an album is current, the track index is -1 or an index of
\* that album's tracks, and the track getState reports is the track whose
\* file was last loaded into the audio element (none before any load).
C30_StateIsLoaded ==
  player.currentAlbum # 0 =>
    /\ player.currentTrackIndex \in -1..(Len(AlbumTracks(player.currentAlbum)) - 1)
    /\ getState(player).track =
         (IF player.src = NoSrc THEN "null" ELSE player.src.path)


\* C31: after every completed scan whose catalog was put in the carousel,
\* the file map that resolves durations (currentFileMap) is the map
\* installed in the player.
C31_SameFileMap ==
  app.populatedBy # "none" => app.currentFileMap = <<player.fileMap>>


\* Every iteration before the last one made has advanced the cursor by at
\* least 4 bytes, and an iteration that did not leave the loop advanced it
\* by at least 4 bytes from a place with 4 bytes of input left.
Advancing ==
  ret.steps > 0 =>
    /\ ret.prev >= call.start + 4 * (ret.steps - 1)
    /\ ~ret.exited => ret.pos >= ret.prev + 4 /\ ret.prev + 4 <= Len(call.buf)

\* C32: every reader's loop terminates on every input: each iteration
\* either leaves the loop or advances the cursor by at least 4 bytes,
\* whatever sizes the input declares, and the loop does leave.
C32_LoopsEnd == []Advancing /\ <>ret.exited

\* A walk met a declared size of zero and one below 8 and went on past
\* both.
C32_Witness ==
  /\ call.loop = "findAtom"
  /\ TakeFirst(call.buf, 8) = U32(0) \o U32(7)
  /\ ret.steps = 3
  /\ ret.pos = 8 + 8
  /\ ~ret.exited


\* C33: when the dispatcher falls back to the path, the record comes
\* wholly from the path: its picture is absent, its track is the leading
\* digits of the file name or absent, and no field is the reader's.
C33_FallbackFromPath ==
  ret.done /\ ~ret.raised /\ NothingUseful(ret.read) =>
    /\ ret.tags.picture = NoPicture
    /\ ret.tags.track = (IF call.numbered THEN Str(<<"0","3">>) ELSE Null)
    /\ ret.tags.title = (IF call.numbered THEN Str(<<"b">>) ELSE Str(<<"a">>))
    /\ ret.tags.artist \in {Null, Str(<<"X">>)}
    /\ ret.tags.album \in {Null, Str(<<"Y">>)}

\* The reader gave a track number and a picture and nothing else, and the
\* record returned has neither.
C33_Witness ==
  /\ ret.done
  /\ NothingUseful(ret.read)
  /\ ret.read.track = <<55>>
  /\ ret.read.picture.present
  /\ ret.tags.track = Null
  /\ ret.tags.picture = NoPicture


\* C34: a picture an APIC frame has yielded is not lost to a later frame
\* of the tag: after a well-formed APIC frame the record has a picture,
\* whatever APIC frame follows.
C34_PictureKept ==
  ret.done /\ ~ret.raised => ret.tags.picture.present


\* The blob URLs the player created and has not revoked
LiveUrls == {u \in 1..player.created : u \notin player.revoked}

\* At most one URL is live, and it is the one the player holds.
OneLiveUrl ==
  /\ Cardinality(LiveUrls) <= 1
  /\ LiveUrls = IF player.currentBlobURL = 0 THEN {} ELSE {player.currentBlobURL}

\* A call that loads nothing into the audio element creates no URL and
\* revokes none.
NoFileNoUrl ==
  player'.src = player.src =>
    player'.created = player.created /\ player'.revoked = player.revoked

\* C35: after any sequence of track changes the player holds at most one
\* live blob URL of its own; playTrack revokes the previous URL before it
\* creates the next, and a playTrack that finds no file neither revokes
\* nor creates one.
C35_OneLiveUrl == []OneLiveUrl /\ [][NoFileNoUrl]_vars

\* Two tracks were played, the first URL is revoked, and a loadAlbum then
\* found no file for its track: the album changed, the audio did not.
C35_Witness ==
  /\ player.created = 2
  /\ player.revoked = {1}
  /\ player.currentBlobURL = 2
  /\ player.currentAlbum # player.src.album

============================================================================
